---- MODULE Spec2Model ----
(***************************************************************************)
(* csv-evaluator: the validation engine (src/src/validator.ts) and its     *)
(* orchestrator validateFile (src/src/index.ts).                           *)
(*                                                                         *)
(* A JavaScript string is a sequence of UTF-16 code units (naturals);      *)
(* string literals of the source are written as their code units, with the *)
(* text in a comment.  An optional field of a configuration object is a    *)
(* record field that is present or absent (DOMAIN), read with a default as *)
(* `??` does.                                                              *)
(***************************************************************************)
EXTENDS Integers, Sequences, FiniteSets, TLC

VARIABLES
    pc,        \* per validateFile call: "idle", "awaiting", "resolved", "rejected"
    config,    \* per call: the ValidationConfig it was given
    parsed,    \* per call: what parseFile settled with (pending, a table, a thrown value)
    outcome,   \* per call: the ValidationResult the promise resolved to
    invoked,   \* per call: the collaborators invoked so far, in call order
    call,      \* a direct call of one exported validator: its name and arguments
    ret        \* what that direct call returned

vars == <<pc, config, parsed, outcome, invoked, call, ret>>

----------------------------------------------------------------------------
(* Bounds of the model *)

\* most entries of an expected or observed header row in the validateHeaders runs
MaxHeaderCols == 3

\* most data rows (rows after the header row) of a parsed table
MaxDataRows == 2

----------------------------------------------------------------------------
(* JavaScript strings *)

\* Array.prototype.join
RECURSIVE join(_, _)
join(ss, sep) ==
    IF ss = <<>> THEN <<>>
    ELSE IF Len(ss) = 1 THEN ss[1]
    ELSE ss[1] \o sep \o join(Tail(ss), sep)

\* WhiteSpace and LineTerminator code units, as String.prototype.trim and \s see them
IsWhiteSpace(c) ==
    \/ c \in {9, 10, 11, 12, 13, 32, 160, 5760, 8232, 8233, 8239, 8287, 12288, 65279}
    \/ c \in 8192..8202

RECURSIVE TrimStart(_)
TrimStart(s) ==
    IF s # <<>> /\ IsWhiteSpace(Head(s)) THEN TrimStart(Tail(s)) ELSE s

RECURSIVE TrimEnd(_)
TrimEnd(s) ==
    IF s # <<>> /\ IsWhiteSpace(s[Len(s)]) THEN TrimEnd(SubSeq(s, 1, Len(s) - 1)) ELSE s

\* String.prototype.trim
trim(s) == TrimEnd(TrimStart(s))

\* the lower-case mapping of one code unit: A-Z and the Latin-1 capitals
LowerCode(c) ==
    IF c \in 65..90 THEN c + 32
    ELSE IF c \in 192..222 /\ c # 215 THEN c + 32
    ELSE c

\* String.prototype.toLowerCase, for strings of code units up to U+00FF
toLowerCase(s) == [i \in 1..Len(s) |-> LowerCode(s[i])]

\* Number.prototype.toString(radix) of a natural, digits 0-9 then a-z
DigitCode(d) == IF d < 10 THEN 48 + d ELSE 87 + d

RECURSIVE toStringRadix(_, _)
toStringRadix(n, radix) ==
    IF n < radix THEN <<DigitCode(n)>>
    ELSE toStringRadix(n \div radix, radix) \o <<DigitCode(n % radix)>>

\* String(n) / template interpolation of a natural
toString(n) == toStringRadix(n, 10)

\* Array.prototype.includes on an array of strings
includes(arr, x) == \E i \in 1..Len(arr) : arr[i] = x

\* String.prototype.includes
HasSubstring(s, sub) ==
    \E i \in 1..(Len(s) - Len(sub) + 1) : SubSeq(s, i, i + Len(sub) - 1) = sub

\* obj.field ?? dflt
OrDefault(obj, field, dflt) == IF field \in DOMAIN obj THEN obj[field] ELSE dflt

----------------------------------------------------------------------------
(* validateHeaders, src/src/validator.ts:42-97 *)

\* the literal null
null == [isNull |-> TRUE]

\* a normalize that lower-cases but does not trim
normalizeNoTrim(str, caseInsensitive) ==
    IF caseInsensitive THEN toLowerCase(str) ELSE str

\* a normalize that lower-cases whatever the flag is
normalizeAlwaysLower(str, caseInsensitive) == trim(toLowerCase(str))

\* the normalize arrow function of validateHeaders (and of the schema functions)
normalize(str, caseInsensitive) ==
    IF caseInsensitive THEN trim(toLowerCase(str)) ELSE trim(str)

\* headers.map(normalize)
mapNormalize(hs, caseInsensitive) ==
    [i \in 1..Len(hs) |-> normalize(hs[i], caseInsensitive)]

\* a forEach that pushes the normalized name instead of the original one
RECURSIVE collectMissingNormalized(_, _, _, _)
collectMissingNormalized(expectedHeaders, normalizedExpected, normalizedHeaders, index) ==
    IF index > Len(normalizedExpected) THEN <<>>
    ELSE (IF ~includes(normalizedHeaders, normalizedExpected[index])
          THEN <<normalizedExpected[index]>> ELSE <<>>)
         \o collectMissingNormalized(expectedHeaders, normalizedExpected,
                                     normalizedHeaders, index + 1)

\* the forEach that collects missingHeaders: the original expected names whose
\* normalized form the normalized observed row does not include, in expected order
RECURSIVE collectMissing(_, _, _, _)
collectMissing(expectedHeaders, normalizedExpected, normalizedHeaders, index) ==
    IF index > Len(normalizedExpected) THEN <<>>
    ELSE (IF ~includes(normalizedHeaders, normalizedExpected[index])
          THEN <<expectedHeaders[index]>> ELSE <<>>)
         \o collectMissing(expectedHeaders, normalizedExpected, normalizedHeaders, index + 1)

\* a strict-order loop that reports the 0-based index as the position
RECURSIVE orderLoopZeroBased(_, _, _, _, _)
orderLoopZeroBased(headers, expectedHeaders, normalizedHeaders, normalizedExpected, i) ==
    IF i > Len(normalizedHeaders) THEN null
    ELSE IF normalizedHeaders[i] # normalizedExpected[i]
    THEN [column |-> IF expectedHeaders[i] # <<>> THEN expectedHeaders[i]
                     ELSE <<99, 111, 108, 117, 109, 110, 32>> \o toString(i - 1),
          line   |-> 1,
          reason |-> <<69, 120, 112, 101, 99, 116, 101, 100, 32, 104, 101, 97, 100, 101, 114, 32, 34>>
                     \o expectedHeaders[i]
                     \o <<34, 32, 97, 116, 32, 112, 111, 115, 105, 116, 105, 111, 110, 32>>
                     \o toString(i - 1)
                     \o <<44, 32, 102, 111, 117, 110, 100, 32, 34>>
                     \o headers[i]
                     \o <<34>>]
    ELSE orderLoopZeroBased(headers, expectedHeaders, normalizedHeaders,
                            normalizedExpected, i + 1)

\* the for loop of the strict-order branch, from index i (1-based here):
\* the failure of the first position that differs, or null
RECURSIVE orderLoop(_, _, _, _, _)
orderLoop(headers, expectedHeaders, normalizedHeaders, normalizedExpected, i) ==
    IF i > Len(normalizedHeaders) THEN null
    ELSE IF normalizedHeaders[i] # normalizedExpected[i]
    THEN [column |-> IF expectedHeaders[i] # <<>> THEN expectedHeaders[i]
                     ELSE <<99, 111, 108, 117, 109, 110, 32>> \o toString(i),  \* `column ${i + 1}`
          line   |-> 1,
          reason |-> <<69, 120, 112, 101, 99, 116, 101, 100, 32, 104, 101, 97, 100, 101, 114, 32, 34>>  \* 'Expected header "'
                     \o expectedHeaders[i]
                     \o <<34, 32, 97, 116, 32, 112, 111, 115, 105, 116, 105, 111, 110, 32>>  \* '" at position '
                     \o toString(i)
                     \o <<44, 32, 102, 111, 117, 110, 100, 32, 34>>  \* ', found "'
                     \o headers[i]
                     \o <<34>>]  \* '"'
    ELSE orderLoop(headers, expectedHeaders, normalizedHeaders, normalizedExpected, i + 1)

\* a count failure that gives the two lengths the other way round
countMismatchSwapped(normalizedHeaders, normalizedExpected) ==
    [column |-> <<104, 101, 97, 100, 101, 114, 115>>,
     line   |-> 1,
     reason |-> <<69, 120, 112, 101, 99, 116, 101, 100, 32>>
                \o toString(Len(normalizedHeaders))
                \o <<32, 104, 101, 97, 100, 101, 114, 115, 44, 32, 102, 111, 117, 110, 100, 32>>
                \o toString(Len(normalizedExpected))]

\* the failure returned when the two lengths differ under strict order
countMismatch(normalizedHeaders, normalizedExpected) ==
    [column |-> <<104, 101, 97, 100, 101, 114, 115>>,  \* 'headers'
     line   |-> 1,
     reason |-> <<69, 120, 112, 101, 99, 116, 101, 100, 32>>  \* 'Expected '
                \o toString(Len(normalizedExpected))
                \o <<32, 104, 101, 97, 100, 101, 114, 115, 44, 32, 102, 111, 117, 110, 100, 32>>  \* ' headers, found '
                \o toString(Len(normalizedHeaders))]

validateHeaders(headers, cfg) ==
    LET expectedHeaders    == cfg.expectedHeaders
        strictOrder        == OrDefault(cfg, "strictOrder", TRUE)
        caseInsensitive    == OrDefault(cfg, "caseInsensitive", FALSE)
        normalizedHeaders  == mapNormalize(headers, caseInsensitive)
        normalizedExpected == mapNormalize(expectedHeaders, caseInsensitive)
        missingHeaders     == collectMissing(expectedHeaders, normalizedExpected,
                                             normalizedHeaders, 1)
    IN  IF Len(missingHeaders) > 0
        THEN [column |-> <<104, 101, 97, 100, 101, 114, 115>>,  \* 'headers'
              line   |-> 1,
              reason |-> <<77, 105, 115, 115, 105, 110, 103, 32, 114, 101, 113, 117, 105, 114, 101, 100, 32, 104, 101, 97, 100, 101, 114, 115, 58, 32>>  \* 'Missing required headers: '
                         \o join(missingHeaders, <<44, 32>>)]  \* ', '
        ELSE IF strictOrder /\ Len(normalizedHeaders) # Len(normalizedExpected)
        THEN countMismatch(normalizedHeaders, normalizedExpected)
        ELSE IF strictOrder
        THEN orderLoop(headers, expectedHeaders, normalizedHeaders, normalizedExpected, 1)
        ELSE null

----------------------------------------------------------------------------
(* Regular expressions of the pattern catalog.  A pattern is a sequence of  *)
(* tokens; RegExp.prototype.test is the existence of a match at some start. *)
(* None of the catalog's expressions has the g or y flag, so test keeps no  *)
(* lastIndex between calls.                                                 *)

Chr(c)     == [t |-> "chr", c |-> c]          \* one literal character
WS(min)    == [t |-> "ws", min |-> min]       \* \s* (min 0) or \s+ (min 1)
DotStar    == [t |-> "dot"]                   \* .*
Alt(words) == [t |-> "alt", words |-> words]  \* (w1|w2|...), literal words

\* a literal run of characters
Lit(word) == [i \in 1..Len(word) |-> Chr(word[i])]

\* Canonicalize of a non-unicode /i match: toUpperCase, never from a non-ASCII
\* to an ASCII character; every character of the catalog is ASCII
Canonicalize(c, ignoreCase) ==
    IF ignoreCase /\ c \in 97..122 THEN c - 32 ELSE c

\* LineTerminator, which . does not match
IsLineTerminator(c) == c \in {10, 13, 8232, 8233}

\* word matches s at position i
WordAt(word, s, i, ignoreCase) ==
    /\ i + Len(word) - 1 <= Len(s)
    /\ \A j \in 1..Len(word) :
          Canonicalize(s[i + j - 1], ignoreCase) = Canonicalize(word[j], ignoreCase)

\* tokens k.. of the pattern match s from position i
RECURSIVE MatchHere(_, _, _, _, _)
MatchHere(pattern, k, s, i, ignoreCase) ==
    IF k > Len(pattern) THEN TRUE
    ELSE LET tok == pattern[k] IN
      CASE tok.t = "chr" ->
             /\ i <= Len(s)
             /\ Canonicalize(s[i], ignoreCase) = Canonicalize(tok.c, ignoreCase)
             /\ MatchHere(pattern, k + 1, s, i + 1, ignoreCase)
        [] tok.t = "ws" ->
             \E n \in tok.min..(Len(s) - i + 1) :
                /\ \A j \in i..(i + n - 1) : IsWhiteSpace(s[j])
                /\ MatchHere(pattern, k + 1, s, i + n, ignoreCase)
        [] tok.t = "dot" ->
             \E n \in 0..(Len(s) - i + 1) :
                /\ \A j \in i..(i + n - 1) : ~IsLineTerminator(s[j])
                /\ MatchHere(pattern, k + 1, s, i + n, ignoreCase)
        [] tok.t = "alt" ->
             \E w \in 1..Len(tok.words) :
                /\ WordAt(tok.words[w], s, i, ignoreCase)
                /\ MatchHere(pattern, k + 1, s, i + Len(tok.words[w]), ignoreCase)

\* pattern.test(s)
test(entry, s) ==
    \E i \in 1..(Len(s) + 1) : MatchHere(entry.pattern, 1, s, i, entry.ignoreCase)

\* src/src/validator.ts:13-37, one entry per source line 14..36
SQL_DANGEROUS_PATTERNS == <<
    \* 14: /;/  'Statement terminator'
    [pattern |-> Lit(<<59>>),
     ignoreCase |-> FALSE,
     description |-> <<83, 116, 97, 116, 101, 109, 101, 110, 116, 32, 116, 101, 114, 109, 105, 110, 97, 116, 111, 114>>],
    \* 15: /--/  'SQL comment'
    [pattern |-> Lit(<<45, 45>>),
     ignoreCase |-> FALSE,
     description |-> <<83, 81, 76, 32, 99, 111, 109, 109, 101, 110, 116>>],
    \* 16: /\/\*/  'Multi-line comment start'
    [pattern |-> Lit(<<47, 42>>),
     ignoreCase |-> FALSE,
     description |-> <<77, 117, 108, 116, 105, 45, 108, 105, 110, 101, 32, 99, 111, 109, 109, 101, 110, 116, 32, 115, 116, 97, 114, 116>>],
    \* 17: /\*\//  'Multi-line comment end'
    [pattern |-> Lit(<<42, 47>>),
     ignoreCase |-> FALSE,
     description |-> <<77, 117, 108, 116, 105, 45, 108, 105, 110, 101, 32, 99, 111, 109, 109, 101, 110, 116, 32, 101, 110, 100>>],
    \* 18: /';/  'Quote followed by statement terminator (potential injection)'
    [pattern |-> Lit(<<39, 59>>),
     ignoreCase |-> FALSE,
     description |-> <<81, 117, 111, 116, 101, 32, 102, 111, 108, 108, 111, 119, 101, 100, 32, 98, 121, 32, 115, 116, 97, 116, 101, 109, 101, 110, 116, 32, 116, 101, 114, 109, 105, 110, 97, 116, 111, 114, 32, 40, 112, 111, 116, 101, 110, 116, 105, 97, 108, 32, 105, 110, 106, 101, 99, 116, 105, 111, 110, 41>>],
    \* 19: /';\s*(drop|delete|update|insert|select)/i  'SQL injection pattern'
    [pattern |-> Lit(<<39, 59>>) \o <<WS(0)>> \o <<Alt(<<<<100, 114, 111, 112>>, <<100, 101, 108, 101, 116, 101>>, <<117, 112, 100, 97, 116, 101>>, <<105, 110, 115, 101, 114, 116>>, <<115, 101, 108, 101, 99, 116>>>>)>>,
     ignoreCase |-> TRUE,
     description |-> <<83, 81, 76, 32, 105, 110, 106, 101, 99, 116, 105, 111, 110, 32, 112, 97, 116, 116, 101, 114, 110>>],
    \* 20: /';\s*exec/i  'SQL injection with exec'
    [pattern |-> Lit(<<39, 59>>) \o <<WS(0)>> \o Lit(<<101, 120, 101, 99>>),
     ignoreCase |-> TRUE,
     description |-> <<83, 81, 76, 32, 105, 110, 106, 101, 99, 116, 105, 111, 110, 32, 119, 105, 116, 104, 32, 101, 120, 101, 99>>],
    \* 21: /';\s*union/i  'SQL injection with union'
    [pattern |-> Lit(<<39, 59>>) \o <<WS(0)>> \o Lit(<<117, 110, 105, 111, 110>>),
     ignoreCase |-> TRUE,
     description |-> <<83, 81, 76, 32, 105, 110, 106, 101, 99, 116, 105, 111, 110, 32, 119, 105, 116, 104, 32, 117, 110, 105, 111, 110>>],
    \* 22: /\x00/  'Null byte'
    [pattern |-> Lit(<<0>>),
     ignoreCase |-> FALSE,
     description |-> <<78, 117, 108, 108, 32, 98, 121, 116, 101>>],
    \* 23: /\x1a/  'Ctrl+Z character'
    [pattern |-> Lit(<<26>>),
     ignoreCase |-> FALSE,
     description |-> <<67, 116, 114, 108, 43, 90, 32, 99, 104, 97, 114, 97, 99, 116, 101, 114>>],
    \* 24: /\x08/  'Backspace character'
    [pattern |-> Lit(<<8>>),
     ignoreCase |-> FALSE,
     description |-> <<66, 97, 99, 107, 115, 112, 97, 99, 101, 32, 99, 104, 97, 114, 97, 99, 116, 101, 114>>],
    \* 25: /xp_/i  'Extended stored procedure'
    [pattern |-> Lit(<<120, 112, 95>>),
     ignoreCase |-> TRUE,
     description |-> <<69, 120, 116, 101, 110, 100, 101, 100, 32, 115, 116, 111, 114, 101, 100, 32, 112, 114, 111, 99, 101, 100, 117, 114, 101>>],
    \* 26: /sp_/i  'System stored procedure'
    [pattern |-> Lit(<<115, 112, 95>>),
     ignoreCase |-> TRUE,
     description |-> <<83, 121, 115, 116, 101, 109, 32, 115, 116, 111, 114, 101, 100, 32, 112, 114, 111, 99, 101, 100, 117, 114, 101>>],
    \* 27: /exec\s*\(/i  'EXEC( statement'
    [pattern |-> Lit(<<101, 120, 101, 99>>) \o <<WS(0)>> \o Lit(<<40>>),
     ignoreCase |-> TRUE,
     description |-> <<69, 88, 69, 67, 40, 32, 115, 116, 97, 116, 101, 109, 101, 110, 116>>],
    \* 28: /execute\s*\(/i  'EXECUTE( statement'
    [pattern |-> Lit(<<101, 120, 101, 99, 117, 116, 101>>) \o <<WS(0)>> \o Lit(<<40>>),
     ignoreCase |-> TRUE,
     description |-> <<69, 88, 69, 67, 85, 84, 69, 40, 32, 115, 116, 97, 116, 101, 109, 101, 110, 116>>],
    \* 29: /select\s+.*\s+from/i  'SELECT ... FROM statement'
    [pattern |-> Lit(<<115, 101, 108, 101, 99, 116>>) \o <<WS(1)>> \o <<DotStar>> \o <<WS(1)>> \o Lit(<<102, 114, 111, 109>>),
     ignoreCase |-> TRUE,
     description |-> <<83, 69, 76, 69, 67, 84, 32, 46, 46, 46, 32, 70, 82, 79, 77, 32, 115, 116, 97, 116, 101, 109, 101, 110, 116>>],
    \* 30: /insert\s+into/i  'INSERT INTO statement'
    [pattern |-> Lit(<<105, 110, 115, 101, 114, 116>>) \o <<WS(1)>> \o Lit(<<105, 110, 116, 111>>),
     ignoreCase |-> TRUE,
     description |-> <<73, 78, 83, 69, 82, 84, 32, 73, 78, 84, 79, 32, 115, 116, 97, 116, 101, 109, 101, 110, 116>>],
    \* 31: /update\s+.*\s+set/i  'UPDATE ... SET statement'
    [pattern |-> Lit(<<117, 112, 100, 97, 116, 101>>) \o <<WS(1)>> \o <<DotStar>> \o <<WS(1)>> \o Lit(<<115, 101, 116>>),
     ignoreCase |-> TRUE,
     description |-> <<85, 80, 68, 65, 84, 69, 32, 46, 46, 46, 32, 83, 69, 84, 32, 115, 116, 97, 116, 101, 109, 101, 110, 116>>],
    \* 32: /delete\s+from/i  'DELETE FROM statement'
    [pattern |-> Lit(<<100, 101, 108, 101, 116, 101>>) \o <<WS(1)>> \o Lit(<<102, 114, 111, 109>>),
     ignoreCase |-> TRUE,
     description |-> <<68, 69, 76, 69, 84, 69, 32, 70, 82, 79, 77, 32, 115, 116, 97, 116, 101, 109, 101, 110, 116>>],
    \* 33: /drop\s+(table|database|schema)/i  'DROP TABLE/DATABASE statement'
    [pattern |-> Lit(<<100, 114, 111, 112>>) \o <<WS(1)>> \o <<Alt(<<<<116, 97, 98, 108, 101>>, <<100, 97, 116, 97, 98, 97, 115, 101>>, <<115, 99, 104, 101, 109, 97>>>>)>>,
     ignoreCase |-> TRUE,
     description |-> <<68, 82, 79, 80, 32, 84, 65, 66, 76, 69, 47, 68, 65, 84, 65, 66, 65, 83, 69, 32, 115, 116, 97, 116, 101, 109, 101, 110, 116>>],
    \* 34: /union\s+select/i  'UNION SELECT statement'
    [pattern |-> Lit(<<117, 110, 105, 111, 110>>) \o <<WS(1)>> \o Lit(<<115, 101, 108, 101, 99, 116>>),
     ignoreCase |-> TRUE,
     description |-> <<85, 78, 73, 79, 78, 32, 83, 69, 76, 69, 67, 84, 32, 115, 116, 97, 116, 101, 109, 101, 110, 116>>],
    \* 35: /or\s+1\s*=\s*1/i  'OR 1=1 injection pattern'
    [pattern |-> Lit(<<111, 114>>) \o <<WS(1)>> \o Lit(<<49>>) \o <<WS(0)>> \o Lit(<<61>>) \o <<WS(0)>> \o Lit(<<49>>),
     ignoreCase |-> TRUE,
     description |-> <<79, 82, 32, 49, 61, 49, 32, 105, 110, 106, 101, 99, 116, 105, 111, 110, 32, 112, 97, 116, 116, 101, 114, 110>>],
    \* 36: /'\s*or\s*'/i  'Quote OR quote injection pattern'
    [pattern |-> Lit(<<39>>) \o <<WS(0)>> \o Lit(<<111, 114>>) \o <<WS(0)>> \o Lit(<<39>>),
     ignoreCase |-> TRUE,
     description |-> <<81, 117, 111, 116, 101, 32, 79, 82, 32, 113, 117, 111, 116, 101, 32, 105, 110, 106, 101, 99, 116, 105, 111, 110, 32, 112, 97, 116, 116, 101, 114, 110>>]
>>


----------------------------------------------------------------------------
(* validateDataRows, src/src/validator.ts:272-318 *)

\* the length of the value preview in a pattern failure's reason
SqlPreviewLength == 50

\* String.prototype.substring(0, n)
substring0(s, n) == SubSeq(s, 1, IF Len(s) < n THEN Len(s) ELSE n)

\* headers[colIndex] || `Column ${colIndex + 1}` (col is 1-based here)
columnNameOrLabel(headers, col) ==
    IF col <= Len(headers) /\ headers[col] # <<>> THEN headers[col]
    ELSE <<67, 111, 108, 117, 109, 110, 32>> \o toString(col)  \* 'Column '

\* the row test of the "Skip empty rows" branch
isEmptyRow(row) == Len(row) = 0 \/ \A i \in 1..Len(row) : row[i] = <<>>

\* a loop over the catalog that has no break and keeps the last entry that matches
RECURSIVE lastMatchingPattern(_, _)
lastMatchingPattern(cellValue, k) ==
    IF k > Len(SQL_DANGEROUS_PATTERNS) THEN 0
    ELSE LET later == lastMatchingPattern(cellValue, k + 1)
         IN  IF later # 0 THEN later
             ELSE IF test(SQL_DANGEROUS_PATTERNS[k], cellValue) THEN k ELSE 0

\* the loop over SQL_DANGEROUS_PATTERNS from entry k: the index of the first
\* entry whose pattern matches, or 0 when none does
RECURSIVE firstMatchingPattern(_, _)
firstMatchingPattern(cellValue, k) ==
    IF k > Len(SQL_DANGEROUS_PATTERNS) THEN 0
    ELSE IF test(SQL_DANGEROUS_PATTERNS[k], cellValue) THEN k
    ELSE firstMatchingPattern(cellValue, k + 1)

\* the body of the cell loop: the failures (none or one) of one cell
sqlCellFailures(cell, headers, col, line) ==
    LET cellValue == trim(cell)
        k         == firstMatchingPattern(cellValue, 1)
    IN  IF cellValue = <<>> \/ k = 0 THEN <<>>
        ELSE <<[column |-> columnNameOrLabel(headers, col),
                line   |-> line,
                reason |-> <<67, 111, 110, 116, 97, 105, 110, 115, 32, 112, 111, 116, 101, 110, 116, 105, 97, 108, 108, 121, 32, 100, 97, 110, 103, 101, 114, 111, 117, 115, 32, 83, 81, 76, 32, 112, 97, 116, 116, 101, 114, 110, 32, 40>>  \* 'Contains potentially dangerous SQL pattern ('
                           \o SQL_DANGEROUS_PATTERNS[k].description
                           \o <<41, 58, 32, 34>>  \* '): "'
                           \o substring0(cellValue, SqlPreviewLength)
                           \o (IF Len(cellValue) > SqlPreviewLength THEN <<46, 46, 46>> ELSE <<>>)  \* '...'
                           \o <<34>>]>>  \* '"'

RECURSIVE sqlCellLoop(_, _, _, _)
sqlCellLoop(row, headers, col, line) ==
    IF col > Len(row) THEN <<>>
    ELSE sqlCellFailures(row[col], headers, col, line)
         \o sqlCellLoop(row, headers, col + 1, line)

\* a row loop that leaves at the first empty row instead of going on to the next
RECURSIVE sqlRowLoopBreakOnEmpty(_, _, _)
sqlRowLoopBreakOnEmpty(data, headers, r) ==
    IF r > Len(data) \/ isEmptyRow(data[r]) THEN <<>>
    ELSE sqlCellLoop(data[r], headers, 1, r)
         \o sqlRowLoopBreakOnEmpty(data, headers, r + 1)

\* the row loop; data[1] is the header row and data[r] is line r of the file
RECURSIVE sqlRowLoop(_, _, _)
sqlRowLoop(data, headers, r) ==
    IF r > Len(data) THEN <<>>
    ELSE (IF isEmptyRow(data[r]) THEN <<>> ELSE sqlCellLoop(data[r], headers, 1, r))
         \o sqlRowLoop(data, headers, r + 1)

\* a check whose row loop starts at the header row
validateDataRowsFromHeaderRow(data, headers, validateSqlInjection) ==
    IF ~validateSqlInjection THEN <<>> ELSE sqlRowLoop(data, headers, 1)

validateDataRows(data, headers, validateSqlInjection) ==
    IF ~validateSqlInjection THEN <<>> ELSE sqlRowLoop(data, headers, 2)

----------------------------------------------------------------------------
(* validateColumnSchemas and its helpers, src/src/validator.ts:99-267 *)

\* a set of boolean values that also holds '1' and '0'
BOOLEAN_VALUES_WithDigits ==
    {<<116>>, <<102>>, <<116, 114, 117, 101>>, <<102, 97, 108, 115, 101>>, <<49>>, <<48>>}

\* BOOLEAN_VALUES: 't', 'f', 'true', 'false'
BOOLEAN_VALUES == {<<116>>, <<102>>, <<116, 114, 117, 101>>, <<102, 97, 108, 115, 101>>}

IsDigit(c) == c \in 48..57

AllDigits(s, from, to) == \A j \in from..to : IsDigit(s[j])

\* a number pattern without the second alternative:  /^-?\d+(\.\d*)?$/
NUMBER_PATTERN_DigitsFirst(s) ==
    LET r == IF s # <<>> /\ s[1] = 45 THEN Tail(s) ELSE s
        n == Len(r)
    IN  \E k \in 1..n :
           /\ AllDigits(r, 1, k)
           /\ \/ k = n
              \/ r[k + 1] = 46 /\ AllDigits(r, k + 2, n)

\* NUMBER_PATTERN.test(s):  /^-?(\d+(\.\d*)?|\d*\.\d+)$/
NUMBER_PATTERN(s) ==
    LET r == IF s # <<>> /\ s[1] = 45 THEN Tail(s) ELSE s  \* -?
        n == Len(r)
    IN  \/ \E k \in 1..n :                                  \* \d+(\.\d*)?
             /\ AllDigits(r, 1, k)
             /\ \/ k = n
                \/ r[k + 1] = 46 /\ AllDigits(r, k + 2, n)
        \/ \E k \in 0..(n - 2) :                            \* \d*\.\d+
             /\ AllDigits(r, 1, k)
             /\ r[k + 1] = 46
             /\ AllDigits(r, k + 2, n)

\* a stripping that goes on while a layer of matching quotes surrounds the value
RECURSIVE stripSurroundingQuotesEveryLayer(_)
stripSurroundingQuotesEveryLayer(value) ==
    LET trimmed == trim(value)
    IN  IF /\ Len(trimmed) >= 2
           /\ \/ trimmed[1] = 34 /\ trimmed[Len(trimmed)] = 34   \* "
              \/ trimmed[1] = 39 /\ trimmed[Len(trimmed)] = 39   \* '
        THEN stripSurroundingQuotesEveryLayer(SubSeq(trimmed, 2, Len(trimmed) - 1))
        ELSE trimmed

stripSurroundingQuotes(value) ==
    LET trimmed == trim(value)
    IN  IF /\ Len(trimmed) >= 2
           /\ \/ trimmed[1] = 34 /\ trimmed[Len(trimmed)] = 34   \* "
              \/ trimmed[1] = 39 /\ trimmed[Len(trimmed)] = 39   \* '
        THEN SubSeq(trimmed, 2, Len(trimmed) - 1)
        ELSE trimmed

\* the first expected header whose normalized form is normalizedKey, or key
RECURSIVE findCanonical(_, _, _, _, _)
findCanonical(expectedHeaders, normalizedKey, key, caseInsensitive, i) ==
    IF i > Len(expectedHeaders) THEN key
    ELSE IF normalize(expectedHeaders[i], caseInsensitive) = normalizedKey
    THEN expectedHeaders[i]
    ELSE findCanonical(expectedHeaders, normalizedKey, key, caseInsensitive, i + 1)

\* the loop over Object.keys(columnSchemas); the object `filtered` is the
\* sequence of its assignments, read with the last assignment of a key winning
RECURSIVE filterLoop(_, _, _, _)
filterLoop(columnSchemas, expectedHeaders, caseInsensitive, i) ==
    IF i > Len(columnSchemas) THEN <<>>
    ELSE LET key           == columnSchemas[i].key
             normalizedKey == normalize(key, caseInsensitive)
         IN  (IF includes(mapNormalize(expectedHeaders, caseInsensitive), normalizedKey)
              THEN <<[key |-> findCanonical(expectedHeaders, normalizedKey, key,
                                            caseInsensitive, 1),
                      constraints |-> columnSchemas[i].constraints]>>
              ELSE <<>>)
             \o filterLoop(columnSchemas, expectedHeaders, caseInsensitive, i + 1)

\* columnSchemas is the sequence of the object's entries in Object.keys order
getFilteredColumnSchemas(cfg) ==
    LET columnSchemas == OrDefault(cfg, "columnSchemas", <<>>)
    IN  IF Len(columnSchemas) = 0 THEN <<>>
        ELSE filterLoop(columnSchemas, cfg.expectedHeaders,
                        OrDefault(cfg, "caseInsensitive", FALSE), 1)

\* obj[key] of an object given as its assignments: the last one of key, or null
RECURSIVE lookup(_, _, _)
lookup(obj, key, i) ==
    IF i = 0 THEN null
    ELSE IF obj[i].key = key THEN obj[i].constraints
    ELSE lookup(obj, key, i - 1)

\* Array.prototype.indexOf, 1-based, 0 when absent
RECURSIVE indexOf(_, _, _)
indexOf(arr, x, i) ==
    IF i > Len(arr) THEN 0 ELSE IF arr[i] = x THEN i ELSE indexOf(arr, x, i + 1)

\* the length of the value preview in a schema failure's reason
SchemaPreviewLength == 50

\* the preview of validateCellForSchema
schemaPreview(rawStr) ==
    IF Len(rawStr) > SchemaPreviewLength
    THEN substring0(rawStr, SchemaPreviewLength) \o <<46, 46, 46>>  \* '...'
    ELSE rawStr

\* a nullability that defaults to false
allowNullDefaultFalse(constraints) == OrDefault(constraints, "allowNull", FALSE)

\* constraints.allowNull ?? true
allowNullOf(constraints) == OrDefault(constraints, "allowNull", TRUE)

\* an empty test made on the value without its quotes, trimmed again
isEmptyAfterStripping(trimmed) == trim(stripSurroundingQuotes(trimmed)) = <<>>

\* trimmed === '' || trimmed == null
isEmptyOf(trimmed) == trimmed = <<>>

validateCellForSchema(rawValue, constraints, columnName, lineNumber) ==
    LET rawStr       == rawValue
        type         == OrDefault(constraints, "type", "string")
        allowNull    == allowNullOf(constraints)
        trimmed      == trim(rawStr)
        isEmpty      == isEmptyOf(trimmed)
        valueToCheck == stripSurroundingQuotes(trimmed)
    IN  IF isEmpty
        THEN IF ~allowNull
             THEN [column |-> columnName,
                   line   |-> lineNumber,
                   reason |-> <<67, 111, 108, 117, 109, 110, 32, 34>>  \* 'Column "'
                              \o columnName
                              \o <<34, 32, 100, 111, 101, 115, 32, 110, 111, 116, 32, 97, 108, 108, 111, 119, 32, 110, 117, 108, 108, 32, 111, 114, 32, 101, 109, 112, 116, 121, 32, 118, 97, 108, 117, 101, 115>>]  \* '" does not allow null or empty values'
             ELSE null
        ELSE IF type = "string" THEN null
        ELSE IF type = "number"
        THEN IF ~NUMBER_PATTERN(valueToCheck)
             THEN [column |-> columnName,
                   line   |-> lineNumber,
                   reason |-> <<67, 111, 108, 117, 109, 110, 32, 34>>  \* 'Column "'
                              \o columnName
                              \o <<34, 32, 101, 120, 112, 101, 99, 116, 115, 32, 97, 32, 110, 117, 109, 98, 101, 114, 59, 32, 103, 111, 116, 58, 32, 34>>  \* '" expects a number; got: "'
                              \o schemaPreview(rawStr)
                              \o <<34>>]  \* '"'
             ELSE null
        ELSE IF type = "boolean"
        THEN IF toLowerCase(valueToCheck) \notin BOOLEAN_VALUES
             THEN [column |-> columnName,
                   line   |-> lineNumber,
                   reason |-> <<67, 111, 108, 117, 109, 110, 32, 34>>  \* 'Column "'
                              \o columnName
                              \o <<34, 32, 101, 120, 112, 101, 99, 116, 115, 32, 97, 32, 98, 111, 111, 108, 101, 97, 110, 32, 40, 84, 44, 32, 70, 44, 32, 116, 114, 117, 101, 44, 32, 102, 97, 108, 115, 101, 41, 59, 32, 103, 111, 116, 58, 32, 34>>  \* '" expects a boolean (T, F, true, false); got: "'
                              \o schemaPreview(rawStr)
                              \o <<34>>]  \* '"'
             ELSE null
        ELSE null

\* the headers.map callback that builds colIndexToConstraints: the entry of
\* observed column col, or null
colIndexToConstraints(headers, cfg, columnSchemas, col) ==
    LET caseInsensitive    == OrDefault(cfg, "caseInsensitive", FALSE)
        normalized         == normalize(headers[col], caseInsensitive)
        expectedNormalized == mapNormalize(cfg.expectedHeaders, caseInsensitive)
        expectedIndex      == indexOf(expectedNormalized, normalized, 1)
    IN  IF expectedIndex = 0 THEN null
        ELSE LET constraints == lookup(columnSchemas, cfg.expectedHeaders[expectedIndex],
                                       Len(columnSchemas))
             IN  IF constraints = null THEN null
                 ELSE [name |-> headers[col], constraints |-> constraints]

RECURSIVE schemaCellLoop(_, _, _, _, _, _)
schemaCellLoop(row, headers, cfg, columnSchemas, col, line) ==
    IF col > Len(row) THEN <<>>
    ELSE LET entry == IF col <= Len(headers)
                      THEN colIndexToConstraints(headers, cfg, columnSchemas, col)
                      ELSE null
             failure == validateCellForSchema(row[col], entry.constraints, entry.name, line)
         IN  (IF entry = null \/ failure = null THEN <<>> ELSE <<failure>>)
             \o schemaCellLoop(row, headers, cfg, columnSchemas, col + 1, line)

\* a row loop that skips the rows of empty cells as the pattern and encoding
\* checks do
RECURSIVE schemaRowLoopSkipEmptyRows(_, _, _, _, _)
schemaRowLoopSkipEmptyRows(data, headers, cfg, columnSchemas, r) ==
    IF r > Len(data) THEN <<>>
    ELSE (IF isEmptyRow(data[r]) THEN <<>>
          ELSE schemaCellLoop(data[r], headers, cfg, columnSchemas, 1, r))
         \o schemaRowLoopSkipEmptyRows(data, headers, cfg, columnSchemas, r + 1)

RECURSIVE schemaRowLoop(_, _, _, _, _)
schemaRowLoop(data, headers, cfg, columnSchemas, r) ==
    IF r > Len(data) THEN <<>>
    ELSE (IF Len(data[r]) = 0 THEN <<>>
          ELSE schemaCellLoop(data[r], headers, cfg, columnSchemas, 1, r))
         \o schemaRowLoop(data, headers, cfg, columnSchemas, r + 1)

validateColumnSchemas(data, headers, cfg) ==
    LET columnSchemas == getFilteredColumnSchemas(cfg)
    IN  IF Len(columnSchemas) = 0 THEN <<>>
        ELSE schemaRowLoop(data, headers, cfg, columnSchemas, 2)

----------------------------------------------------------------------------
(* validateEncoding, src/src/validator.ts:320-398 *)

EncodingTypes == {"ASCII", "LATIN1", "UTF8", "UTF16", "WINDOWS1252"}

ENCODING_RANGES ==
    [e \in EncodingTypes |->
        CASE e = "ASCII"       -> [min |-> 0, max |-> 127]
          [] e = "LATIN1"      -> [min |-> 0, max |-> 255]
          [] e = "UTF8"        -> [min |-> 0, max |-> 127]
          [] e = "UTF16"       -> [min |-> 0, max |-> 127]
          [] e = "WINDOWS1252" -> [min |-> 0, max |-> 255]]

\* the text of an EncodingType value
EncodingText ==
    [e \in EncodingTypes |->
        CASE e = "ASCII"       -> <<65, 83, 67, 73, 73>>
          [] e = "LATIN1"      -> <<76, 65, 84, 73, 78, 49>>
          [] e = "UTF8"        -> <<85, 84, 70, 56>>
          [] e = "UTF16"       -> <<85, 84, 70, 49, 54>>
          [] e = "WINDOWS1252" -> <<87, 73, 78, 68, 79, 87, 83, 49, 50, 53, 50>>]

isValidForEncoding(charCode, encoding) ==
    LET range == ENCODING_RANGES[encoding]
    IN  charCode >= range.min /\ charCode <= range.max

\* String.prototype.toUpperCase of a string of hexadecimal digits
hexToUpperCase(s) == [i \in 1..Len(s) |-> IF s[i] \in 97..102 THEN s[i] - 32 ELSE s[i]]

\* String.prototype.padStart(n, '0')
RECURSIVE padStart0(_, _)
padStart0(s, n) == IF Len(s) >= n THEN s ELSE padStart0(<<48>> \o s, n)

\* the width the hexadecimal code is padded to
HexPadLength == 4

\* the loop over the characters of a cell from charIndex (1-based here): the
\* index of the first character no allowed encoding holds, or 0
RECURSIVE firstInvalidCharEvery(_, _, _)
firstInvalidCharEvery(cellValue, allowedEncodings, charIndex) ==
    IF charIndex > Len(cellValue) THEN 0
    ELSE IF ~\A e \in 1..Len(allowedEncodings) :
                isValidForEncoding(cellValue[charIndex], allowedEncodings[e])
    THEN charIndex
    ELSE firstInvalidCharEvery(cellValue, allowedEncodings, charIndex + 1)

RECURSIVE firstInvalidChar(_, _, _)
firstInvalidChar(cellValue, allowedEncodings, charIndex) ==
    IF charIndex > Len(cellValue) THEN 0
    ELSE IF ~\E e \in 1..Len(allowedEncodings) :
                isValidForEncoding(cellValue[charIndex], allowedEncodings[e])
    THEN charIndex
    ELSE firstInvalidChar(cellValue, allowedEncodings, charIndex + 1)

\* a loop body that trims the cell before the empty test and the scan, as the
\* pattern check does
encodingCellFailuresTrimmed(cell, headers, allowedEncodings, col, line) ==
    LET cellValue == trim(cell)
        charIndex == firstInvalidChar(cellValue, allowedEncodings, 1)
    IN  IF cellValue = <<>> \/ charIndex = 0 THEN <<>>
        ELSE <<[column |-> columnNameOrLabel(headers, col),
                line   |-> line,
                reason |-> <<67, 111, 110, 116, 97, 105, 110, 115, 32, 99, 104, 97, 114, 97, 99, 116, 101, 114, 32, 34>>  \* 'Contains character "'
                           \o <<cellValue[charIndex]>>
                           \o <<34, 32, 40>>  \* '" ('
                           \o <<48, 120>>  \* '0x'
                           \o padStart0(hexToUpperCase(toStringRadix(cellValue[charIndex], 16)),
                                        HexPadLength)
                           \o <<41, 32, 110, 111, 116, 32, 97, 108, 108, 111, 119, 101, 100, 32, 105, 110, 32, 115, 112, 101, 99, 105, 102, 105, 101, 100, 32, 101, 110, 99, 111, 100, 105, 110, 103, 115, 58, 32>>  \* ') not allowed in specified encodings: '
                           \o join([e \in 1..Len(allowedEncodings) |->
                                       EncodingText[allowedEncodings[e]]],
                                   <<44, 32>>)]>>  \* ', '

encodingCellFailures(cell, headers, allowedEncodings, col, line) ==
    LET cellValue == cell
        charIndex == firstInvalidChar(cellValue, allowedEncodings, 1)
    IN  IF cellValue = <<>> \/ charIndex = 0 THEN <<>>
        ELSE <<[column |-> columnNameOrLabel(headers, col),
                line   |-> line,
                reason |-> <<67, 111, 110, 116, 97, 105, 110, 115, 32, 99, 104, 97, 114, 97, 99, 116, 101, 114, 32, 34>>  \* 'Contains character "'
                           \o <<cellValue[charIndex]>>
                           \o <<34, 32, 40>>  \* '" ('
                           \o <<48, 120>>  \* '0x'
                           \o padStart0(hexToUpperCase(toStringRadix(cellValue[charIndex], 16)),
                                        HexPadLength)
                           \o <<41, 32, 110, 111, 116, 32, 97, 108, 108, 111, 119, 101, 100, 32, 105, 110, 32, 115, 112, 101, 99, 105, 102, 105, 101, 100, 32, 101, 110, 99, 111, 100, 105, 110, 103, 115, 58, 32>>  \* ') not allowed in specified encodings: '
                           \o join([e \in 1..Len(allowedEncodings) |->
                                       EncodingText[allowedEncodings[e]]],
                                   <<44, 32>>)]>>  \* ', '

RECURSIVE encodingCellLoop(_, _, _, _, _)
encodingCellLoop(row, headers, allowedEncodings, col, line) ==
    IF col > Len(row) THEN <<>>
    ELSE encodingCellFailures(row[col], headers, allowedEncodings, col, line)
         \o encodingCellLoop(row, headers, allowedEncodings, col + 1, line)

\* a row loop whose line counts only the rows that were not skipped
RECURSIVE encodingRowLoopSkippedUncounted(_, _, _, _)
encodingRowLoopSkippedUncounted(data, headers, allowedEncodings, r) ==
    IF r > Len(data) THEN <<>>
    ELSE (IF isEmptyRow(data[r]) THEN <<>>
          ELSE encodingCellLoop(data[r], headers, allowedEncodings, 1,
                                r - Cardinality({q \in 2..(r - 1) : isEmptyRow(data[q])})))
         \o encodingRowLoopSkippedUncounted(data, headers, allowedEncodings, r + 1)

RECURSIVE encodingRowLoop(_, _, _, _)
encodingRowLoop(data, headers, allowedEncodings, r) ==
    IF r > Len(data) THEN <<>>
    ELSE (IF isEmptyRow(data[r]) THEN <<>>
          ELSE encodingCellLoop(data[r], headers, allowedEncodings, 1, r))
         \o encodingRowLoop(data, headers, allowedEncodings, r + 1)

validateEncoding(data, headers, allowedEncodings) ==
    IF Len(allowedEncodings) = 0 THEN <<>>
    ELSE encodingRowLoop(data, headers, allowedEncodings, 2)

----------------------------------------------------------------------------
(* validateFile, src/src/index.ts:37-122 *)

\* a promise that has not settled, a value not yet returned
pending == [isPending |-> TRUE]

\* a catch clause that rethrows what it caught
validateFileCatchRethrow(error) == [kind |-> "throw", value |-> error]

\* the return statement of the catch clause: the thrown value as a failure outcome
validateFileCatch(error) ==
    [kind  |-> "return",
     value |-> [success  |-> FALSE,
                message  |-> <<69, 114, 114, 111, 114, 32, 112, 114, 111, 99, 101, 115, 115, 105, 110, 103, 32, 102, 105, 108, 101, 58, 32>>  \* 'Error processing file: '
                             \o (IF error.instanceofError THEN error.message
                                 ELSE <<85, 110, 107, 110, 111, 119, 110, 32, 101, 114, 114, 111, 114>>),  \* 'Unknown error'
                failures |-> <<[column |-> <<102, 105, 108, 101>>,  \* 'file'
                                line   |-> 0,
                                reason |-> IF error.instanceofError THEN error.message
                                           ELSE <<85, 110, 107, 110, 111, 119, 110, 32, 101, 114, 114, 111, 114, 32, 111, 99, 99, 117, 114, 114, 101, 100>>]>>]]  \* 'Unknown error occurred'

\* an empty table reported on the header line
emptyFileReturnLine1 ==
    [kind  |-> "return",
     calls |-> <<>>,
     value |-> [success  |-> FALSE,
                message  |-> <<70, 105, 108, 101, 32, 105, 115, 32, 101, 109, 112, 116, 121>>,
                failures |-> <<[column |-> <<102, 105, 108, 101>>,
                                line   |-> 1,
                                reason |-> <<70, 105, 108, 101, 32, 99, 111, 110, 116, 97, 105, 110, 115, 32, 110, 111, 32, 100, 97, 116, 97>>]>>]]

\* the return of the "data.length === 0" branch, src/src/index.ts:45-57
emptyFileReturn ==
    [kind  |-> "return",
     calls |-> <<>>,
     value |-> [success  |-> FALSE,
                message  |-> <<70, 105, 108, 101, 32, 105, 115, 32, 101, 109, 112, 116, 121>>,  \* 'File is empty'
                failures |-> <<[column |-> <<102, 105, 108, 101>>,  \* 'file'
                                line   |-> 0,
                                reason |-> <<70, 105, 108, 101, 32, 99, 111, 110, 116, 97, 105, 110, 115, 32, 110, 111, 32, 100, 97, 116, 97>>]>>]]  \* 'File contains no data'

\* a header failure that does not end the call: the pattern validator still runs
headerFailureNoReturn(headerFailure) ==
    [kind  |-> "return",
     calls |-> <<"validateHeaders", "validateDataRows">>,
     value |-> [success  |-> FALSE,
                message  |-> <<86, 97, 108, 105, 100, 97, 116, 105, 111, 110, 32, 102, 97, 105, 108, 101, 100, 58, 32, 49, 32, 105, 115, 115, 117, 101, 40, 115, 41, 32, 102, 111, 117, 110, 100>>,  \* 'Validation failed: 1 issue(s) found'
                failures |-> <<headerFailure>>]]

\* the return of the "if (headerFailure)" branch, src/src/index.ts:64-70
headerFailureReturn(headerFailure) ==
    [kind  |-> "return",
     calls |-> <<"validateHeaders">>,
     value |-> [success  |-> FALSE,
                message  |-> <<72, 101, 97, 100, 101, 114, 32, 118, 97, 108, 105, 100, 97, 116, 105, 111, 110, 32, 102, 97, 105, 108, 101, 100>>,  \* 'Header validation failed'
                failures |-> <<headerFailure>>]]

\* config.validateSqlInjection ?? true
validateSqlOf(cfg) == OrDefault(cfg, "validateSqlInjection", TRUE)

\* config.headers.columnSchemas && Object.keys(config.headers.columnSchemas).length > 0
hasColumnSchemas(cfg) == Len(OrDefault(cfg.headers, "columnSchemas", <<>>)) > 0

\* an allowed set that falls back to validateEncoding's default ['UTF8']
allowedEncodingsDefaultUtf8(cfg) ==
    LET given == OrDefault(OrDefault(cfg, "encoding", <<>>), "allowedEncodings", <<>>)
    IN  IF Len(given) = 0 THEN <<"UTF8">> ELSE given

\* an allowed set that is ['UTF8'] when the policy gives none, and the given one
\* (an empty one too) otherwise
allowedEncodingsUtf8WhenAbsent(cfg) ==
    IF "encoding" \in DOMAIN cfg /\ "allowedEncodings" \in DOMAIN cfg.encoding
    THEN cfg.encoding.allowedEncodings
    ELSE <<"UTF8">>

\* config.encoding?.allowedEncodings, [] standing for undefined
allowedEncodingsOf(cfg) ==
    OrDefault(OrDefault(cfg, "encoding", <<>>), "allowedEncodings", <<>>)

\* config.encoding?.allowedEncodings && config.encoding.allowedEncodings.length > 0
hasAllowedEncodings(cfg) == Len(allowedEncodingsOf(cfg)) > 0

\* the three sequences combined in another order
combineFailuresSchemaFirst(sqlFailures, columnSchemaFailures, encodingFailures) ==
    columnSchemaFailures \o sqlFailures \o encodingFailures

\* [...sqlFailures, ...columnSchemaFailures, ...encodingFailures]
combineFailures(sqlFailures, columnSchemaFailures, encodingFailures) ==
    sqlFailures \o columnSchemaFailures \o encodingFailures

\* a message that counts the failures from zero
combinedReturnCountFromZero(allFailures, calls) ==
    IF Len(allFailures) > 0
    THEN [kind  |-> "return",
          calls |-> calls,
          value |-> [success  |-> FALSE,
                     message  |-> <<86, 97, 108, 105, 100, 97, 116, 105, 111, 110, 32, 102, 97, 105, 108, 101, 100, 58, 32>>
                                  \o toString(Len(allFailures) - 1)
                                  \o <<32, 105, 115, 115, 117, 101, 40, 115, 41, 32, 102, 111, 117, 110, 100>>,
                     failures |-> allFailures]]
    ELSE [kind  |-> "return",
          calls |-> calls,
          value |-> [success |-> TRUE,
                     message |-> <<70, 105, 108, 101, 32, 118, 97, 108, 105, 100, 97, 116, 105, 111, 110, 32, 112, 97, 115, 115, 101, 100, 32, 115, 117, 99, 99, 101, 115, 115, 102, 117, 108, 108, 121>>]]

\* the two returns after the failures are combined, src/src/index.ts:96-108
combinedReturn(allFailures, calls) ==
    IF Len(allFailures) > 0
    THEN [kind  |-> "return",
          calls |-> calls,
          value |-> [success  |-> FALSE,
                     message  |-> <<86, 97, 108, 105, 100, 97, 116, 105, 111, 110, 32, 102, 97, 105, 108, 101, 100, 58, 32>>  \* 'Validation failed: '
                                  \o toString(Len(allFailures))
                                  \o <<32, 105, 115, 115, 117, 101, 40, 115, 41, 32, 102, 111, 117, 110, 100>>,  \* ' issue(s) found'
                     failures |-> allFailures]]
    ELSE [kind  |-> "return",
          calls |-> calls,
          value |-> [success |-> TRUE,
                     message |-> <<70, 105, 108, 101, 32, 118, 97, 108, 105, 100, 97, 116, 105, 111, 110, 32, 112, 97, 115, 115, 101, 100, 32, 115, 117, 99, 99, 101, 115, 115, 102, 117, 108, 108, 121>>]]  \* 'File validation passed successfully'

\* the statements of the try block after the await, on the table data: the value
\* returned and the validators called, in call order
validateFileTry(data, cfg) ==
    IF Len(data) = 0 THEN emptyFileReturn
    ELSE
    LET headers       == data[1]
        headerFailure == validateHeaders(headers, cfg.headers)
    IN  IF headerFailure # null THEN headerFailureReturn(headerFailure)
        ELSE
        LET sqlFailures == validateDataRows(data, headers, validateSqlOf(cfg))
            columnSchemaFailures ==
                IF hasColumnSchemas(cfg)
                THEN validateColumnSchemas(data, headers, cfg.headers) ELSE <<>>
            encodingFailures ==
                IF hasAllowedEncodings(cfg)
                THEN validateEncoding(data, headers, allowedEncodingsOf(cfg)) ELSE <<>>
            calls == <<"validateHeaders", "validateDataRows">>
                     \o (IF hasColumnSchemas(cfg) THEN <<"validateColumnSchemas">> ELSE <<>>)
                     \o (IF hasAllowedEncodings(cfg) THEN <<"validateEncoding">> ELSE <<>>)
        IN  combinedReturn(combineFailures(sqlFailures, columnSchemaFailures,
                                           encodingFailures), calls)

\* how an async function settles: a return resolves its promise, a throw rejects it
Settle(completion) == IF completion.kind = "return" THEN "resolved" ELSE "rejected"

----------------------------------------------------------------------------
(* Inputs *)

\* header names: 'N', 'V', ' n' and 'X'
NameN == <<78>>
NameV == <<86>>
NameLowerN == <<32, 110>>
NameX == <<88>>
NameNSemicolon == <<78, 59>>  \* 'N;'
NameEAcute == <<233>>  \* 'é'

\* every sequence over S of length lo..hi
SeqsOf(S, lo, hi) == UNION {[1..n -> S] : n \in lo..hi}

\* the observed header rows of the parsed tables
HeaderRows ==
    {<<NameN, NameV>>, <<NameV, NameN>>, <<NameN>>, <<NameLowerN, NameV, NameX>>,
     <<NameNSemicolon, NameEAcute>>}

\* the data rows of the parsed tables
DataRows ==
    {<<>>,                                      \* a row with no cell
     <<<<>>, <<>>>>,                            \* '', ''
     <<<<97>>, <<55>>>>,                        \* 'a', '7'
     <<<<59, 233>>, <<120, 45, 45, 8364>>>>,    \* ';é', 'x--€'
     <<<<32>>, <<116>>, <<8364, 59>>>>}         \* ' ', 't', '€;'

\* what parseFile resolves with: no row at all, or a header row and data rows
\* tables in which nothing is irregular but characters above 0x7F: 'é', '7' and
\* then 'Ā', ''
NonAsciiTables ==
    {<<<<NameN, NameV>>, <<<<233>>, <<55>>>>>>,
     <<<<NameN, NameV>>, <<<<233>>, <<55>>>>, <<<<256>>, <<>>>>>>}

ParsedTables ==
    {<<>>} \cup {<<h>> \o rows : h \in HeaderRows, rows \in SeqsOf(DataRows, 0, MaxDataRows)}
    \cup NonAsciiTables

\* what parseFile rejects with: Error('Parse failed'), Error(''), the string
\* 'string error', the plain object {message: 'boom'}
ThrownValues ==
    {[instanceofError |-> TRUE, message |-> <<80, 97, 114, 115, 101, 32, 102, 97, 105, 108, 101, 100>>],
     [instanceofError |-> TRUE, message |-> <<>>],
     [instanceofError |-> FALSE, text |-> <<115, 116, 114, 105, 110, 103, 32, 101, 114, 114, 111, 114>>],
     [instanceofError |-> FALSE, message |-> <<98, 111, 111, 109>>]}

\* the columnSchemas objects of the policies, when the field is present: {},
\* {V: number}, and {N: no null, V: boolean and no null, X: number and no null}
\* (X is no expected header)
ColumnSchemaChoices ==
    {<<>>,
     <<[key |-> NameV, constraints |-> [type |-> "number"]]>>,
     <<[key |-> NameN, constraints |-> [allowNull |-> FALSE]],
       [key |-> NameV, constraints |-> [type |-> "boolean", allowNull |-> FALSE]],
       [key |-> NameX, constraints |-> [type |-> "number", allowNull |-> FALSE]]>>}

HeaderConfigs ==
    LET base == [expectedHeaders |-> <<NameN, NameV>>]
        flags == {base,
                  [expectedHeaders |-> <<NameN, NameV>>, strictOrder |-> FALSE,
                   caseInsensitive |-> TRUE]}
    IN  flags \cup
        {[f \in DOMAIN h \cup {"columnSchemas"} |->
             IF f = "columnSchemas" THEN cs ELSE h[f]] : h \in flags, cs \in ColumnSchemaChoices}

\* the encoding field when present: {allowedEncodings: []}, ['UTF8'], ['UTF8', 'LATIN1']
EncodingConfigs ==
    {[allowedEncodings |-> a] : a \in {<<>>, <<"UTF8">>, <<"UTF8", "LATIN1">>}}

\* policies whose expected headers hold a catalog pattern (';') and a character
\* above 0x7F, with a number constraint on the column 'é'
SpecialHeaderConfigs ==
    LET h == [expectedHeaders |-> <<NameNSemicolon, NameEAcute>>,
              columnSchemas |->
                  <<[key |-> NameEAcute,
                     constraints |-> [type |-> "number", allowNull |-> FALSE]]>>]
    IN  {[headers |-> h],
         [headers |-> h, encoding |-> [allowedEncodings |-> <<"UTF8">>]],
         [headers |-> h, validateSqlInjection |-> FALSE,
          encoding |-> [allowedEncodings |-> <<"ASCII", "UTF16">>]]}

\* policies with an encoding field that has no allowedEncodings: {encoding: {}}
EncodingWithoutAllowedConfigs ==
    {[headers |-> [expectedHeaders |-> <<NameN, NameV>>], encoding |-> <<>>],
     [headers |-> [expectedHeaders |-> <<NameN, NameV>>,
                   columnSchemas |->
                       <<[key |-> NameV, constraints |-> [type |-> "number"]]>>],
      validateSqlInjection |-> TRUE,
      encoding |-> <<>>]}

ValidationConfigs ==
    LET withHeaders == {[headers |-> h] : h \in HeaderConfigs}
        withSql     == withHeaders \cup
                       {[headers |-> c.headers, validateSqlInjection |-> b] :
                           c \in withHeaders, b \in BOOLEAN}
    IN  withSql \cup SpecialHeaderConfigs \cup EncodingWithoutAllowedConfigs \cup
        {[f \in DOMAIN c \cup {"encoding"} |->
             IF f = "encoding" THEN e ELSE c[f]] : c \in withSql, e \in EncodingConfigs}

----------------------------------------------------------------------------
(* The calls of validateFile *)

NoDirectCall == [fn |-> "none"]

InitCalls(ids) ==
    /\ config \in [ids -> ValidationConfigs]
    /\ pc = [c \in ids |-> "idle"]
    /\ parsed = [c \in ids |-> pending]
    /\ outcome = [c \in ids |-> pending]
    /\ invoked = [c \in ids |-> <<>>]

\* one caller, one call of validateFile
Init ==
    /\ InitCalls({"call1"})
    /\ call = NoDirectCall
    /\ ret = pending

\* validateFile is called: it runs to the await of parseFile(file)
CallValidateFile(c) ==
    /\ pc[c] = "idle"
    /\ pc' = [pc EXCEPT ![c] = "awaiting"]
    /\ invoked' = [invoked EXCEPT ![c] = Append(@, "parseFile")]
    /\ UNCHANGED <<config, parsed, outcome, call, ret>>

\* a resolution in which the policy is read from a variable of the module that
\* every call sets when it starts, so that it may be that of another started call
ParseFileResolvesSharedPolicy(c, tables) ==
    /\ pc[c] = "awaiting"
    /\ \E data \in tables : \E d \in DOMAIN pc :
          LET completion == validateFileTry(data, config[d])
          IN  /\ pc[d] # "idle"
              /\ parsed' = [parsed EXCEPT ![c] = [kind |-> "table", data |-> data]]
              /\ invoked' = [invoked EXCEPT ![c] = @ \o completion.calls]
              /\ outcome' = [outcome EXCEPT ![c] = completion.value]
              /\ pc' = [pc EXCEPT ![c] = Settle(completion)]
    /\ UNCHANGED <<config, call, ret>>

\* parseFile resolves with one of tables: the rest of the try block runs to its
\* return, on the call's own data and config
ParseFileResolvesWith(c, tables) ==
    /\ pc[c] = "awaiting"
    /\ \E data \in tables :
          LET completion == validateFileTry(data, config[c])
          IN  /\ parsed' = [parsed EXCEPT ![c] = [kind |-> "table", data |-> data]]
              /\ invoked' = [invoked EXCEPT ![c] = @ \o completion.calls]
              /\ outcome' = [outcome EXCEPT ![c] = completion.value]
              /\ pc' = [pc EXCEPT ![c] = Settle(completion)]
    /\ UNCHANGED <<config, call, ret>>

\* parseFile resolves with a table
ParseFileResolves(c) == ParseFileResolvesWith(c, ParsedTables)

\* parseFile rejects: the await throws and the catch clause runs
ParseFileRejects(c) ==
    /\ pc[c] = "awaiting"
    /\ \E error \in ThrownValues :
          LET completion == validateFileCatch(error)
          IN  /\ parsed' = [parsed EXCEPT ![c] = [kind |-> "thrown", error |-> error]]
              /\ outcome' = [outcome EXCEPT ![c] = completion.value]
              /\ pc' = [pc EXCEPT ![c] = Settle(completion)]
    /\ UNCHANGED <<config, invoked, call, ret>>

Next ==
    \E c \in DOMAIN pc :
        \/ CallValidateFile(c)
        \/ ParseFileResolves(c)
        \/ ParseFileRejects(c)

Spec == Init /\ [][Next]_vars

----------------------------------------------------------------------------
(* Two callers: two calls of validateFile in flight at once.  Each call is  *)
(* an activation of the async function with its own file, config and local  *)
(* variables; the calls interleave at the await of parseFile.               *)

\* the tables the parser resolves with for the two calls: no row, a header row
\* alone, clean data, data with ';' and non-ASCII characters, and reordered
\* headers
ConcurrentTables ==
    {<<>>,
     <<<<NameN, NameV>>>>,
     <<<<NameN, NameV>>, <<<<97>>, <<55>>>>>>,                          \* 'a', '7'
     <<<<NameN, NameV>>, <<<<59, 233>>, <<120, 45, 45, 8364>>>>, <<>>>>,  \* ';é', 'x--€'
     <<<<NameV, NameN>>, <<<<32>>, <<116>>, <<8364, 59>>>>>>}           \* ' ', 't', '€;'

\* the policies of the two calls
ConcurrentConfigs ==
    {[headers |-> [expectedHeaders |-> <<NameN, NameV>>]],
     [headers |-> [expectedHeaders |-> <<NameN, NameV>>, strictOrder |-> FALSE,
                   columnSchemas |->
                       <<[key |-> NameV, constraints |-> [type |-> "number"]]>>],
      validateSqlInjection |-> FALSE],
     [headers |-> [expectedHeaders |-> <<NameN, NameV>>],
      encoding |-> [allowedEncodings |-> <<"UTF8">>]],
     [headers |-> [expectedHeaders |-> <<NameN, NameV>>, strictOrder |-> FALSE,
                   columnSchemas |->
                       <<[key |-> NameN, constraints |-> [allowNull |-> FALSE]],
                         [key |-> NameV, constraints |-> [type |-> "boolean"]]>>],
      encoding |-> [allowedEncodings |-> <<"UTF8", "LATIN1">>]]}

CallIds == {"call1", "call2"}

InitConcurrent ==
    /\ config \in [CallIds -> ConcurrentConfigs]
    /\ pc = [c \in CallIds |-> "idle"]
    /\ parsed = [c \in CallIds |-> pending]
    /\ outcome = [c \in CallIds |-> pending]
    /\ invoked = [c \in CallIds |-> <<>>]
    /\ call = NoDirectCall
    /\ ret = pending

\* a step of either call, in any order
NextConcurrent ==
    \E c \in CallIds :
        \/ CallValidateFile(c)
        \/ ParseFileResolvesWith(c, ConcurrentTables)
        \/ ParseFileRejects(c)

SpecConcurrent == InitConcurrent /\ [][NextConcurrent]_vars

----------------------------------------------------------------------------
(* Direct calls of validateHeaders *)

\* the header names of the direct calls: '', 'A' and 'a ' (they differ in case
\* and in surrounding whitespace, and one is empty)
HeaderNames == {<<>>, <<65>>, <<97, 32>>}

\* the names of one direct call come from one family: those, or the case
\* variants 'A' and 'a'
NameFamilies == {HeaderNames, {<<65>>, <<97>>}}

HeaderFlagChoices ==
    LET flag(name) == {<<>>} \cup {[f \in {name} |-> b] : b \in BOOLEAN}
    IN  {[f \in DOMAIN s \cup DOMAIN ci |-> IF f \in DOMAIN s THEN s[f] ELSE ci[f]] :
            s \in flag("strictOrder"), ci \in flag("caseInsensitive")}

InitHeaders ==
    /\ pc = <<>> /\ config = <<>> /\ parsed = <<>> /\ outcome = <<>> /\ invoked = <<>>
    /\ \E names \in NameFamilies :
       \E headers \in SeqsOf(names, 0, MaxHeaderCols),
          expected \in SeqsOf(names, 0, MaxHeaderCols),
          flags \in HeaderFlagChoices :
          call = [fn |-> "validateHeaders",
                  headers |-> headers,
                  config |-> [f \in {"expectedHeaders"} \cup DOMAIN flags |->
                                 IF f = "expectedHeaders" THEN expected ELSE flags[f]]]
    /\ ret = pending

ReturnValidateHeaders ==
    /\ call.fn = "validateHeaders"
    /\ ret = pending
    /\ ret' = validateHeaders(call.headers, call.config)
    /\ UNCHANGED <<pc, config, parsed, outcome, invoked, call>>

NextHeaders == ReturnValidateHeaders

SpecHeaders == InitHeaders /\ [][NextHeaders]_vars

----------------------------------------------------------------------------
(* Direct calls of validateDataRows, validateColumnSchemas and validateEncoding *)

\* the cells of the pattern calls
SqlCells ==
    {<<>>,                                                    \* ''
     <<32>>,                                                  \* ' '
     <<97>>,                                                  \* 'a'
     <<59>>,                                                  \* ';'
     <<32, 45, 45, 32, 120>>,                                 \* ' -- x'
     <<97, 59, 45, 45>>,                                      \* 'a;--'
     <<47, 42, 45, 45>>,                                      \* '/*--'
     <<39, 59, 100, 114, 111, 112>>,                          \* "';drop"
     <<39>>,                                                  \* "'"
     <<34>>,                                                  \* '"'
     <<92>>,                                                  \* '\\'
     <<79, 39, 66, 114, 105, 101, 110>>,                      \* "O'Brien"
     <<120, 112, 95, 115, 112, 95>>,                          \* 'xp_sp_'
     <<9, 160>>,                                              \* '\t\u00A0'
     <<39, 59, 32, 69, 88, 69, 67, 32, 120>>,                 \* "'; EXEC x"
     <<39, 59, 117, 110, 105, 111, 110>>}                     \* "';union"

\* the rows of the pattern calls: each cell alone, and rows of several cells
SqlRows ==
    {<<c>> : c \in SqlCells} \cup
    {<<>>,                                                    \* a row with no cell
     <<<<>>, <<>>>>,                                          \* '', ''
     <<<<>>, <<59>>>>,                                        \* '', ';'
     <<<<97, 59, 45, 45>>, <<32, 45, 45, 32, 120>>, <<47, 42, 45, 45>>>>}  \* 'a;--', ' -- x', '/*--'

\* cells for a number column
NumberCells ==
    {<<52, 50>>,                                              \* '42'
     <<45, 51, 46, 49, 52>>,                                  \* '-3.14'
     <<46, 53>>,                                              \* '.5'
     <<45, 48, 46>>,                                          \* '-0.'
     <<34, 52, 50, 34>>,                                      \* '"42"'
     <<39, 45, 55, 39>>,                                      \* "'-7'"
     <<32, 52, 50, 32>>,                                      \* ' 42 '
     <<110, 111, 116, 45, 97, 45, 110, 117, 109, 98, 101, 114>>,  \* 'not-a-number'
     <<49, 46, 50, 46, 51>>,                                  \* '1.2.3'
     <<46>>,                                                  \* '.'
     <<45>>,                                                  \* '-'
     <<43, 53>>,                                              \* '+5'
     <<45, 45, 49>>,                                          \* '--1'
     <<49, 101, 53>>,                                         \* '1e5'
     <<34, 52>>,                                              \* '"4'
     <<34, 34>>,                                              \* '""'
     <<34, 32, 52, 34>>,                                      \* '" 4"'
     <<52, 44, 50>>,                                          \* '4,2'
     <<34, 34, 52, 50, 34, 34>>,                              \* '""42""'
     <<34, 52, 50, 39>>,                                      \* '"42\''
     <<34>>,                                                  \* '"'
     <<39, 39>>,                                              \* "''"
     <<34, 32, 52, 50, 32, 34>>}                              \* '" 42 "'

\* cells for a boolean column
BooleanCells ==
    {<<116>>,                                                 \* 't'
     <<70>>,                                                  \* 'F'
     <<116, 114, 117, 101>>,                                  \* 'true'
     <<70, 65, 76, 83, 69>>,                                  \* 'FALSE'
     <<84, 114, 117, 101>>,                                   \* 'True'
     <<34, 116, 114, 117, 101, 34>>,                          \* '"true"'
     <<32, 102, 9>>,                                          \* ' f\t'
     <<121, 101, 115>>,                                       \* 'yes'
     <<49>>,                                                  \* '1'
     <<48>>,                                                  \* '0'
     <<116, 114, 117>>,                                       \* 'tru'
     <<116, 114, 117, 101, 101>>,                             \* 'truee'
     <<39, 116, 34>>,                                         \* '\'t"'
     <<34, 32, 116, 32, 34>>,                                 \* '" t "'
     <<32, 39, 32, 39>>}                                      \* " ' '"

\* cells that are empty or hold whitespace only
EmptyCells ==
    {<<>>,                                                    \* ''
     <<32>>,                                                  \* ' '
     <<9, 32, 10>>}                                           \* '\t \n'

\* the rows of the schema calls that hold several cells, or none
SchemaRows ==
    {<<>>,                                                    \* a row with no cell
     <<<<>>, <<>>>>,                                          \* '', ''
     <<<<120>>>>,                                             \* 'x'
     <<<<55>>, <<116>>>>,                                     \* '7', 't'
     <<<<120>>, <<121>>>>,                                    \* 'x', 'y'
     <<<<32>>, <<110, 111>>, <<113>>>>}                       \* ' ', 'no', 'q'

\* the rows of the encoding calls
EncodingRows ==
    {<<>>,                                                    \* a row with no cell
     <<<<>>, <<>>>>,                                          \* '', ''
     <<<<97>>, <<233>>>>,                                     \* 'a', 'é'
     <<<<>>, <<8364>>>>,                                      \* '', '€'
     <<<<32, 233, 8364, 32>>, <<97>>, <<256>>>>,              \* ' é€ ', 'a', 'Ā'
     <<<<127, 255>>, <<160>>>>,                               \* '\x7Fÿ', '\u00A0'
     <<<<32>>, <<9, 160, 8195>>>>}                            \* ' ', '\t\u00A0\u2003'

\* two objects as one, the fields of a first
WithFields(a, b) == [f \in DOMAIN a \cup DOMAIN b |-> IF f \in DOMAIN a THEN a[f] ELSE b[f]]

\* an optional argument or field: absent, or present with a value of vals
Optional(name, vals) == {<<>>} \cup {[f \in {name} |-> v] : v \in vals}

\* the tables of the calls: a header row, then at most MaxDataRows rows
TablesOf(headerRows, rows) ==
    {<<h>> \o rs : h \in headerRows, rs \in SeqsOf(rows, 0, MaxDataRows)}

\* ColumnConstraints: every type or none, with every allowNull or none
ConstraintChoices ==
    {WithFields(t, n) : t \in Optional("type", {"string", "number", "boolean"}),
                        n \in Optional("allowNull", BOOLEAN)}

\* the columnSchemas of the calls on whole tables: {}, three keys of which X is
\* no expected header, and the key ' n', which is the expected 'N' only when
\* case is ignored
SchemaObjects ==
    {<<>>,
     <<[key |-> NameN, constraints |-> [allowNull |-> FALSE]],
       [key |-> NameV, constraints |-> [type |-> "boolean", allowNull |-> FALSE]],
       [key |-> NameX, constraints |-> [type |-> "number", allowNull |-> FALSE]]>>,
     <<[key |-> NameLowerN, constraints |-> [type |-> "number", allowNull |-> FALSE]]>>}

\* the calls of validateDataRows; headers is the first row of data
DataRowsCalls ==
    {[fn |-> "validateDataRows", data |-> data, headers |-> data[1], args |-> a] :
        data \in TablesOf({<<NameN, NameV>>, <<<<>>, NameV>>}, SqlRows),
        a \in Optional("validateSqlInjection", BOOLEAN)}

\* the calls of validateColumnSchemas: one cell under every constraint of its
\* column, and whole tables under the schema objects
ColumnSchemasCalls ==
    {[fn |-> "validateColumnSchemas",
      data |-> <<<<NameN, NameV>>, <<cell>>>>,
      headers |-> <<NameN, NameV>>,
      config |-> [expectedHeaders |-> <<NameN, NameV>>,
                  columnSchemas |-> <<[key |-> NameN, constraints |-> c]>>]] :
        cell \in NumberCells \cup BooleanCells \cup EmptyCells, c \in ConstraintChoices}
    \cup
    {[fn |-> "validateColumnSchemas", data |-> data, headers |-> data[1],
      config |-> WithFields([expectedHeaders |-> <<NameN, NameV>>], WithFields(cs, ci))] :
        data \in TablesOf({<<NameN, NameV>>, <<NameV, NameN>>, <<NameLowerN, NameV, NameX>>,
                           <<NameN>>}, SchemaRows),
        cs \in Optional("columnSchemas", SchemaObjects),
        ci \in Optional("caseInsensitive", {TRUE})}

\* the calls of validateEncoding
EncodingCalls ==
    {[fn |-> "validateEncoding", data |-> data, headers |-> data[1], args |-> a] :
        data \in TablesOf({<<NameN, NameV>>, <<<<>>, NameV>>}, EncodingRows),
        a \in Optional("allowedEncodings",
                       {<<>>, <<"UTF8">>, <<"LATIN1">>, <<"UTF8", "LATIN1">>,
                        <<"ASCII", "WINDOWS1252">>, <<"UTF16">>})}

\* the calls of stripSurroundingQuotes: the cells of the schema calls, and
\* quoted values with whitespace around them
StripQuotesCalls ==
    {[fn |-> "stripSurroundingQuotes", value |-> v] :
        v \in NumberCells \cup BooleanCells \cup EmptyCells \cup
              {<<32, 34, 55, 34, 32>>,                        \* ' "7" '
               <<39, 116, 39, 9>>,                            \* "'t'\t"
               <<32, 34>>}}                                   \* ' "'

\* what a direct call returns is kept as {failures: <the array returned>}, or
\* as {value: <the string returned>}
InitRows ==
    /\ pc = <<>> /\ config = <<>> /\ parsed = <<>> /\ outcome = <<>> /\ invoked = <<>>
    /\ call \in DataRowsCalls \cup ColumnSchemasCalls \cup EncodingCalls \cup StripQuotesCalls
    /\ ret = pending

\* validateSqlInjection: boolean = true
ReturnValidateDataRows ==
    /\ call.fn = "validateDataRows"
    /\ ret = pending
    /\ ret' = [failures |-> validateDataRows(call.data, call.headers,
                                             OrDefault(call.args, "validateSqlInjection", TRUE))]
    /\ UNCHANGED <<pc, config, parsed, outcome, invoked, call>>

ReturnValidateColumnSchemas ==
    /\ call.fn = "validateColumnSchemas"
    /\ ret = pending
    /\ ret' = [failures |-> validateColumnSchemas(call.data, call.headers, call.config)]
    /\ UNCHANGED <<pc, config, parsed, outcome, invoked, call>>

\* allowedEncodings: EncodingType[] = ['UTF8']
ReturnValidateEncoding ==
    /\ call.fn = "validateEncoding"
    /\ ret = pending
    /\ ret' = [failures |-> validateEncoding(call.data, call.headers,
                                             OrDefault(call.args, "allowedEncodings", <<"UTF8">>))]
    /\ UNCHANGED <<pc, config, parsed, outcome, invoked, call>>

ReturnStripSurroundingQuotes ==
    /\ call.fn = "stripSurroundingQuotes"
    /\ ret = pending
    /\ ret' = [value |-> stripSurroundingQuotes(call.value)]
    /\ UNCHANGED <<pc, config, parsed, outcome, invoked, call>>

NextRows ==
    \/ ReturnValidateDataRows
    \/ ReturnValidateColumnSchemas
    \/ ReturnValidateEncoding
    \/ ReturnStripSurroundingQuotes

SpecRows == InitRows /\ [][NextRows]_vars

----------------------------------------------------------------------------
(* Properties of validateFile *)

\* the call's parser resolved with a table / rejected with a thrown value
GotTable(c) == "data" \in DOMAIN parsed[c]
GotThrown(c) == "error" \in DOMAIN parsed[c]

\* texts the properties name
TextFile == <<102, 105, 108, 101>>  \* 'file'
TextNoData == <<110, 111, 32, 100, 97, 116, 97>>  \* 'no data'
TextHeaderValidationFailed == <<72, 101, 97, 100, 101, 114, 32, 118, 97, 108, 105, 100, 97, 116, 105, 111, 110, 32, 102, 97, 105, 108, 101, 100>>  \* 'Header validation failed'
TextUnknownErrorOccurred == <<85, 110, 107, 110, 111, 119, 110, 32, 101, 114, 114, 111, 114, 32, 111, 99, 99, 117, 114, 114, 101, 100>>  \* 'Unknown error occurred'

ContentValidators == {"validateDataRows", "validateColumnSchemas", "validateEncoding"}
Validators == ContentValidators \cup {"validateHeaders"}

\* how often the call invoked the collaborator fn
TimesInvoked(c, fn) == Cardinality({i \in 1..Len(invoked[c]) : invoked[c][i] = fn})

\* the call got a table with a header row that validateHeaders fails
HeaderFails(c) ==
    /\ GotTable(c)
    /\ Len(parsed[c].data) > 0
    /\ validateHeaders(parsed[c].data[1], config[c].headers) # null

\* the call got a table with a header row that validateHeaders passes
HeaderPasses(c) ==
    /\ GotTable(c)
    /\ Len(parsed[c].data) > 0
    /\ validateHeaders(parsed[c].data[1], config[c].headers) = null

\* C1: whenever the parsed table is non-empty and validateHeaders returns a
\* failure, the outcome is a failure with message "Header validation failed"
\* whose failures are exactly that one header failure, and none of
\* validateDataRows, validateColumnSchemas, validateEncoding is invoked.
C1_HeaderFailureGates ==
    \A c \in DOMAIN pc :
        HeaderFails(c) =>
            /\ pc[c] = "resolved"
            /\ outcome[c] =
                  [success  |-> FALSE,
                   message  |-> TextHeaderValidationFailed,
                   failures |-> <<validateHeaders(parsed[c].data[1], config[c].headers)>>]
            /\ \A fn \in ContentValidators : TimesInvoked(c, fn) = 0
            /\ TimesInvoked(c, "validateHeaders") = 1

\* a header failure on a table that has data rows with content the other
\* validators would report
C1_Witness ==
    \E c \in DOMAIN pc :
        /\ HeaderFails(c)
        /\ Len(parsed[c].data) > 1
        /\ validateDataRows(parsed[c].data, parsed[c].data[1], TRUE) # <<>>
        /\ outcome[c].success = FALSE

\* C2: when the parser returns a table with zero rows, the outcome is a failure
\* carrying exactly one file-level failure (column "file", line 0, reason
\* containing "no data"), and no validator, the header validator included, is
\* invoked.
C2_EmptyTable ==
    \A c \in DOMAIN pc :
        (GotTable(c) /\ Len(parsed[c].data) = 0) =>
            /\ pc[c] = "resolved"
            /\ outcome[c].success = FALSE
            /\ Len(outcome[c].failures) = 1
            /\ outcome[c].failures[1].column = TextFile
            /\ outcome[c].failures[1].line = 0
            /\ HasSubstring(outcome[c].failures[1].reason, TextNoData)
            /\ \A fn \in Validators : TimesInvoked(c, fn) = 0

\* the parser resolved with a table of zero rows and the call has returned
C2_Witness ==
    \E c \in DOMAIN pc :
        /\ GotTable(c)
        /\ Len(parsed[c].data) = 0
        /\ pc[c] = "resolved"
        /\ outcome[c] # pending

\* a ValidationResult: success with a message, or failure with a message and failures
IsValidationResult(v) ==
    /\ DOMAIN v \in {{"success", "message"}, {"success", "message", "failures"}}
    /\ v.success \in BOOLEAN
    /\ v.success <=> "failures" \notin DOMAIN v

\* C3: validateFile never rejects: whatever the parser settles with and whatever
\* the policy, the promise resolves to an outcome value; when the parser rejects,
\* the outcome is a failure with exactly one failure (column "file", line 0), the
\* parser is not invoked again, and no validator runs.
C3_NeverRejects ==
    \A c \in DOMAIN pc :
        /\ pc[c] # "rejected"
        /\ (GotTable(c) \/ GotThrown(c)) =>
              pc[c] = "resolved" /\ IsValidationResult(outcome[c])
        /\ GotThrown(c) =>
              /\ outcome[c].success = FALSE
              /\ Len(outcome[c].failures) = 1
              /\ outcome[c].failures[1].column = TextFile
              /\ outcome[c].failures[1].line = 0
              /\ TimesInvoked(c, "parseFile") = 1
              /\ \A fn \in Validators : TimesInvoked(c, fn) = 0

\* the parser rejected with a value that is not an Error and the call resolved
C3_Witness ==
    \E c \in DOMAIN pc :
        /\ GotThrown(c)
        /\ ~parsed[c].error.instanceofError
        /\ pc[c] = "resolved"
        /\ outcome[c].success = FALSE

\* the thrown value carries a message: it is an Error whose message is not empty
CarriesMessage(error) == error.instanceofError /\ error.message # <<>>

StartsWith(s, prefix) == Len(s) >= Len(prefix) /\ SubSeq(s, 1, Len(prefix)) = prefix
EndsWith(s, suffix) ==
    Len(s) >= Len(suffix) /\ SubSeq(s, Len(s) - Len(suffix) + 1, Len(s)) = suffix

\* the validator a failure comes from, read off the opening of its reason
IsPatternFailure(f) ==
    StartsWith(f.reason, <<67, 111, 110, 116, 97, 105, 110, 115, 32, 112, 111, 116, 101, 110, 116, 105, 97, 108, 108, 121, 32, 100, 97, 110, 103, 101, 114, 111, 117, 115, 32, 83, 81, 76, 32, 112, 97, 116, 116, 101, 114, 110, 32, 40>>)  \* 'Contains potentially dangerous SQL pattern ('
IsSchemaFailure(f) ==
    StartsWith(f.reason, <<67, 111, 108, 117, 109, 110, 32, 34>>)  \* 'Column "'
IsEncodingFailure(f) ==
    StartsWith(f.reason, <<67, 111, 110, 116, 97, 105, 110, 115, 32, 99, 104, 97, 114, 97, 99, 116, 101, 114, 32, 34>>)  \* 'Contains character "'

\* the failures of a call's outcome (none on success), and its three blocks
FailuresOf(c) == IF outcome[c].success THEN <<>> ELSE outcome[c].failures
PatternBlock(c) == SelectSeq(FailuresOf(c), IsPatternFailure)
SchemaBlock(c) == SelectSeq(FailuresOf(c), IsSchemaFailure)
EncodingBlock(c) == SelectSeq(FailuresOf(c), IsEncodingFailure)

\* a is b with some entries left out, the order kept
RECURSIVE IsSubsequence(_, _)
IsSubsequence(a, b) ==
    IF a = <<>> THEN TRUE
    ELSE IF b = <<>> THEN FALSE
    ELSE IF Head(a) = Head(b) THEN IsSubsequence(Tail(a), Tail(b))
    ELSE IsSubsequence(a, Tail(b))

\* the column a failure of a pattern or encoding check names for cell col of a
\* row, and the one a schema failure names
ReportedColumn(headers, col) ==
    IF col <= Len(headers) /\ headers[col] # <<>> THEN headers[col]
    ELSE <<67, 111, 108, 117, 109, 110, 32>> \o toString(col)  \* 'Column N'

ReportedColumns(headers, row, schema) ==
    IF schema
    THEN [col \in 1..(IF Len(row) < Len(headers) THEN Len(row) ELSE Len(headers)) |->
             headers[col]]
    ELSE [col \in 1..Len(row) |-> ReportedColumn(headers, col)]

\* the failures of one block lie on data rows, rows ascending, and those of one
\* row name columns of that row from left to right
RowThenColumnOrder(block, data, schema) ==
    /\ \A k \in 1..Len(block) : block[k].line \in 2..Len(data)
    /\ \A k \in 1..(Len(block) - 1) : block[k].line <= block[k + 1].line
    /\ \A line \in 2..Len(data) :
          LET ofLine(f) == f.line = line
              onLine    == SelectSeq(block, ofLine)
          IN  IsSubsequence([k \in 1..Len(onLine) |-> onLine[k].column],
                            ReportedColumns(data[1], data[line], schema))

\* C5: when the header passes, the outcome's failures are all pattern failures,
\* then all schema failures, then all encoding failures, and inside each block
\* rows ascend and, within a row, columns ascend.
C5_FailureOrder ==
    \A c \in DOMAIN pc :
        HeaderPasses(c) =>
            LET data == parsed[c].data IN
            /\ FailuresOf(c) = PatternBlock(c) \o SchemaBlock(c) \o EncodingBlock(c)
            /\ Len(PatternBlock(c)) =
                  Len(validateDataRows(data, data[1], validateSqlOf(config[c])))
            /\ Len(EncodingBlock(c)) =
                  Len(validateEncoding(data, data[1], allowedEncodingsOf(config[c])))
            /\ RowThenColumnOrder(PatternBlock(c), data, FALSE)
            /\ RowThenColumnOrder(SchemaBlock(c), data, TRUE)
            /\ RowThenColumnOrder(EncodingBlock(c), data, FALSE)

\* an outcome with all three blocks, two rows reported, and a row with two
\* failures in one block
C5_Witness ==
    \E c \in DOMAIN pc :
        /\ HeaderPasses(c)
        /\ PatternBlock(c) # <<>> /\ SchemaBlock(c) # <<>> /\ EncodingBlock(c) # <<>>
        /\ \E j, k \in 1..Len(PatternBlock(c)) :
              /\ j < k
              /\ PatternBlock(c)[j].line = PatternBlock(c)[k].line
        /\ \E j, k \in 1..Len(SchemaBlock(c)) :
              SchemaBlock(c)[j].line < SchemaBlock(c)[k].line

\* the number a string of decimal digits writes
RECURSIVE DecimalValue(_)
DecimalValue(ds) ==
    IF ds = <<>> THEN 0
    ELSE 10 * DecimalValue(SubSeq(ds, 1, Len(ds) - 1)) + (ds[Len(ds)] - 48)

TextValidationFailed == <<86, 97, 108, 105, 100, 97, 116, 105, 111, 110, 32, 102, 97, 105, 108, 101, 100, 58, 32>>  \* 'Validation failed: '
TextIssuesFound == <<32, 105, 115, 115, 117, 101, 40, 115, 41, 32, 102, 111, 117, 110, 100>>  \* ' issue(s) found'
TextPassed == <<70, 105, 108, 101, 32, 118, 97, 108, 105, 100, 97, 116, 105, 111, 110, 32, 112, 97, 115, 115, 101, 100, 32, 115, 117, 99, 99, 101, 115, 115, 102, 117, 108, 108, 121>>  \* 'File validation passed successfully'

\* the policy's gates, as the claims word them
SqlCheckDisabled(cfg) ==
    "validateSqlInjection" \in DOMAIN cfg /\ cfg.validateSqlInjection = FALSE
SchemasHaveKey(cfg) ==
    "columnSchemas" \in DOMAIN cfg.headers /\ Len(cfg.headers.columnSchemas) >= 1
EncodingPolicyGiven(cfg) ==
    /\ "encoding" \in DOMAIN cfg
    /\ "allowedEncodings" \in DOMAIN cfg.encoding
    /\ Len(cfg.encoding.allowedEncodings) >= 1

\* what each check reports on the call's table when its gate is open
PatternFindings(c) ==
    IF SqlCheckDisabled(config[c]) THEN <<>>
    ELSE validateDataRows(parsed[c].data, parsed[c].data[1], TRUE)
SchemaFindings(c) ==
    IF SchemasHaveKey(config[c])
    THEN validateColumnSchemas(parsed[c].data, parsed[c].data[1], config[c].headers)
    ELSE <<>>
EncodingFindings(c) ==
    IF EncodingPolicyGiven(config[c])
    THEN validateEncoding(parsed[c].data, parsed[c].data[1],
                          config[c].encoding.allowedEncodings)
    ELSE <<>>

\* C6: with a non-empty table and a passing header, validateFile returns success
\* (message "File validation passed successfully") if and only if the checks
\* that ran produced no failure; otherwise a failure whose message is
\* "Validation failed: <count> issue(s) found", <count> being the length of the
\* returned failures, which are never empty.
C6_SuccessIffNoFailure ==
    \A c \in DOMAIN pc :
        HeaderPasses(c) =>
            LET v       == outcome[c]
                nothing == /\ PatternFindings(c) = <<>>
                           /\ SchemaFindings(c) = <<>>
                           /\ EncodingFindings(c) = <<>>
            IN  /\ pc[c] = "resolved"
                /\ v.success <=> nothing
                /\ v.success => v.message = TextPassed /\ "failures" \notin DOMAIN v
                /\ ~v.success =>
                      LET count == SubSeq(v.message, Len(TextValidationFailed) + 1,
                                          Len(v.message) - Len(TextIssuesFound))
                      IN  /\ Len(v.failures) > 0
                          /\ StartsWith(v.message, TextValidationFailed)
                          /\ EndsWith(v.message, TextIssuesFound)
                          /\ count # <<>>
                          /\ \A k \in 1..Len(count) : IsDigit(count[k])
                          /\ count[1] # 48
                          /\ DecimalValue(count) = Len(v.failures)

\* a failure outcome of a passing header in which the pattern check found
\* nothing and the other checks found two failures or more
C6_Witness ==
    \E c \in DOMAIN pc :
        /\ HeaderPasses(c)
        /\ ~outcome[c].success
        /\ PatternFindings(c) = <<>>
        /\ Len(outcome[c].failures) >= 2

----------------------------------------------------------------------------
(* Properties of validateHeaders *)

\* a direct call of validateHeaders has returned
HeadersReturned == call.fn = "validateHeaders" /\ ret # pending

\* the flags of a HeaderConfig, with their defaults
IsCaseInsensitive(cfg) == "caseInsensitive" \in DOMAIN cfg /\ cfg.caseInsensitive
IsStrictOrder(cfg) == ~("strictOrder" \in DOMAIN cfg /\ ~cfg.strictOrder)

\* s without its surrounding whitespace
Trimmed(s) ==
    LET solid == {k \in 1..Len(s) : ~IsWhiteSpace(s[k])}
    IN  IF solid = {} THEN <<>>
        ELSE SubSeq(s, CHOOSE k \in solid : \A j \in solid : k <= j,
                       CHOOSE k \in solid : \A j \in solid : k >= j)

\* the normalized form of a header name under the case rule
NormalForm(s, caseInsensitive) ==
    Trimmed(IF caseInsensitive THEN toLowerCase(s) ELSE s)

NormalForms(hs, caseInsensitive) ==
    [i \in 1..Len(hs) |-> NormalForm(hs[i], caseInsensitive)]

TextHeaders == <<104, 101, 97, 100, 101, 114, 115>>  \* 'headers'
TextMissingRequired == <<77, 105, 115, 115, 105, 110, 103, 32, 114, 101, 113, 117, 105, 114, 101, 100, 32, 104, 101, 97, 100, 101, 114, 115, 58, 32>>  \* 'Missing required headers: '
TextCommaSpace == <<44, 32>>  \* ', '
TextAtPosition == <<34, 32, 97, 116, 32, 112, 111, 115, 105, 116, 105, 111, 110, 32>>  \* '" at position '
TextFound == <<44, 32, 102, 111, 117, 110, 100, 32, 34>>  \* ', found "'
TextColumnLabel == <<99, 111, 108, 117, 109, 110, 32>>  \* 'column '

\* C8: validateHeaders returns no failure for every observed row that, after
\* trimming each entry (and lower-casing when caseInsensitive is true), equals
\* the equally normalized expectedHeaders entry by entry, in the same order and
\* with the same length, whatever strictOrder is.
C8_NormalizedMatchPasses ==
    HeadersReturned =>
        LET ci == IsCaseInsensitive(call.config)
        IN  NormalForms(call.headers, ci) = NormalForms(call.config.expectedHeaders, ci)
               => ret = null

\* a row of two or more names that equals the expected ones only once trimmed
\* and lower-cased, accepted under the default strict order
C8_Witness ==
    /\ HeadersReturned
    /\ ret = null
    /\ Len(call.headers) >= 2
    /\ call.headers # call.config.expectedHeaders
    /\ IsCaseInsensitive(call.config)
    /\ "strictOrder" \notin DOMAIN call.config
    /\ NormalForms(call.headers, TRUE) = NormalForms(call.config.expectedHeaders, TRUE)
    /\ NormalForms(call.headers, FALSE) # NormalForms(call.config.expectedHeaders, FALSE)
    /\ \E i \in 1..Len(call.headers) : Trimmed(call.headers[i]) # call.headers[i]

\* the expected headers (original names, expected order) whose normalized form
\* does not occur in the normalized observed row
MissingExpected(headers, expected, ci) ==
    LET absent(e) == \A i \in 1..Len(headers) :
                         NormalForm(headers[i], ci) # NormalForm(e, ci)
    IN  SelectSeq(expected, absent)

\* C9: if the normalized form of some expected header does not occur in the
\* normalized observed row, validateHeaders returns one failure with column
\* "headers" and line 1 whose reason lists the missing expected headers, each by
\* its original name, in expectedHeaders order, and no expected header that is
\* present; so for both strictOrder values and before any count or position
\* mismatch.
C9_MissingHeadersListed ==
    HeadersReturned =>
        LET missing == MissingExpected(call.headers, call.config.expectedHeaders,
                                       IsCaseInsensitive(call.config))
        IN  missing # <<>> =>
               ret = [column |-> TextHeaders,
                      line   |-> 1,
                      reason |-> TextMissingRequired \o join(missing, TextCommaSpace)]

\* under strict order, a row of another length than expected that holds one
\* expected header and misses two, one of them written with whitespace
C9_Witness ==
    /\ HeadersReturned
    /\ ret # null
    /\ ret.column = TextHeaders
    /\ IsStrictOrder(call.config)
    /\ Len(call.headers) # Len(call.config.expectedHeaders)
    /\ LET missing == MissingExpected(call.headers, call.config.expectedHeaders,
                                      IsCaseInsensitive(call.config))
       IN  /\ Len(missing) = 2
           /\ Len(missing) < Len(call.config.expectedHeaders)
           /\ \E i \in 1..2 : Trimmed(missing[i]) # missing[i]

\* the observed row is a reordering of the expected headers: the same
\* normalized names, each as often, in another order
IsReordering(headers, expected, ci) ==
    LET nh == NormalForms(headers, ci)
        ne == NormalForms(expected, ci)
        count(s, x) == Cardinality({i \in 1..Len(s) : s[i] = x})
    IN  /\ Len(nh) = Len(ne)
        /\ nh # ne
        /\ \A i \in 1..Len(ne) : count(nh, ne[i]) = count(ne, ne[i])

\* the first position where the normalized rows differ
FirstDifference(headers, expected, ci) ==
    LET nh == NormalForms(headers, ci)
        ne == NormalForms(expected, ci)
        differ == {i \in 1..Len(ne) : nh[i] # ne[i]}
    IN  CHOOSE i \in differ : \A j \in differ : i <= j

\* the reason names position p
NamesPosition(reason, p) == HasSubstring(reason, TextAtPosition \o toString(p) \o TextFound)

\* C10 as claimed: for a reordering of the expected headers, strictOrder=false
\* gives no failure, and strictOrder=true (the default) gives one failure with
\* line 1 whose column is the expected header at the first position where
\* observed and expected differ and whose reason names that 1-based position.
C10_ColumnIsExpectedHeader ==
    (HeadersReturned /\ IsReordering(call.headers, call.config.expectedHeaders,
                                     IsCaseInsensitive(call.config))) =>
        LET p == FirstDifference(call.headers, call.config.expectedHeaders,
                                 IsCaseInsensitive(call.config))
        IN  IF ~IsStrictOrder(call.config) THEN ret = null
            ELSE /\ ret # null
                 /\ ret.line = 1
                 /\ ret.column = call.config.expectedHeaders[p]
                 /\ NamesPosition(ret.reason, p)

\* C10 as amended: as claimed, but the column is the label "column <position>"
\* when the expected header at the first differing position is the empty string.
C10_ReorderingByOrderMode ==
    (HeadersReturned /\ IsReordering(call.headers, call.config.expectedHeaders,
                                     IsCaseInsensitive(call.config))) =>
        LET p == FirstDifference(call.headers, call.config.expectedHeaders,
                                 IsCaseInsensitive(call.config))
            e == call.config.expectedHeaders[p]
        IN  IF ~IsStrictOrder(call.config) THEN ret = null
            ELSE /\ ret # null
                 /\ ret.line = 1
                 /\ ret.column = (IF e # <<>> THEN e ELSE TextColumnLabel \o toString(p))
                 /\ NamesPosition(ret.reason, p)

\* under the default strict order, a reordering of three headers whose first
\* difference is at position 2, where the expected header is the empty string
C10_Witness ==
    /\ HeadersReturned
    /\ "strictOrder" \notin DOMAIN call.config
    /\ Len(call.headers) = 3
    /\ IsReordering(call.headers, call.config.expectedHeaders,
                    IsCaseInsensitive(call.config))
    /\ FirstDifference(call.headers, call.config.expectedHeaders,
                       IsCaseInsensitive(call.config)) = 2
    /\ call.config.expectedHeaders[2] = <<>>
    /\ ret # null
    /\ ret.column = TextColumnLabel \o <<50>>  \* 'column 2'

TextExpected == <<69, 120, 112, 101, 99, 116, 101, 100, 32>>  \* 'Expected '
TextHeadersFound == <<32, 104, 101, 97, 100, 101, 114, 115, 44, 32, 102, 111, 117, 110, 100, 32>>  \* ' headers, found '

\* the observed row holds every expected header and at least one column more
HasExtraColumns(headers, expected, ci) ==
    /\ MissingExpected(headers, expected, ci) = <<>>
    /\ Len(headers) > Len(expected)

\* reason is "Expected N headers, found M" with the decimal numerals of n and m
IsCountReason(reason, n, m) ==
    \E a, b \in 1..Len(reason) :
        Len(TextExpected) + a + Len(TextHeadersFound) + b = Len(reason) /\
        LET na == SubSeq(reason, Len(TextExpected) + 1, Len(TextExpected) + a)
            nb == SubSeq(reason, Len(reason) - b + 1, Len(reason))
        IN  /\ reason = TextExpected \o na \o TextHeadersFound \o nb
            /\ \A k \in 1..a : na[k] \in 48..57
            /\ \A k \in 1..b : nb[k] \in 48..57
            /\ DecimalValue(na) = n
            /\ DecimalValue(nb) = m

\* C11: for an observed row that holds every expected header plus at least one
\* extra column, strictOrder=false gives no failure and strictOrder=true gives
\* the one failure with column "headers", line 1 and reason "Expected N headers,
\* found M", N the expected count and M the observed count; no position is
\* compared.
C11_ExtraColumnsByOrderMode ==
    (HeadersReturned /\ HasExtraColumns(call.headers, call.config.expectedHeaders,
                                        IsCaseInsensitive(call.config))) =>
        IF ~IsStrictOrder(call.config) THEN ret = null
        ELSE /\ ret # null
             /\ ret.column = TextHeaders
             /\ ret.line = 1
             /\ IsCountReason(ret.reason, Len(call.config.expectedHeaders),
                              Len(call.headers))

\* under the default strict order, three observed columns for two expected
\* headers that are both present but not in their expected places
C11_Witness ==
    /\ HeadersReturned
    /\ "strictOrder" \notin DOMAIN call.config
    /\ Len(call.headers) = 3
    /\ Len(call.config.expectedHeaders) = 2
    /\ HasExtraColumns(call.headers, call.config.expectedHeaders,
                       IsCaseInsensitive(call.config))
    /\ NormalForm(call.headers[1], IsCaseInsensitive(call.config))
          # NormalForm(call.config.expectedHeaders[1], IsCaseInsensitive(call.config))
    /\ ret # null
    /\ ret.column = TextHeaders

\* a letter with its case folded away
FoldCase(c) == IF c \in 65..90 THEN c + 32 ELSE c

\* the observed row differs from the expected headers only in letter case:
\* entry by entry the same characters up to case, and not the same row
DiffersOnlyInCase(headers, expected) ==
    /\ Len(headers) = Len(expected)
    /\ headers # expected
    /\ \A i \in 1..Len(expected) :
          /\ Len(headers[i]) = Len(expected[i])
          /\ \A k \in 1..Len(expected[i]) :
                FoldCase(headers[i][k]) = FoldCase(expected[i][k])

\* the failure is a "Missing required headers" failure
IsMissingFailure(r) ==
    /\ r # null
    /\ r.column = TextHeaders
    /\ r.line = 1
    /\ StartsWith(r.reason, TextMissingRequired)

\* C12 as claimed: an observed row that differs from the expected headers only in letter
\* case is accepted if and only if caseInsensitive is true; with caseInsensitive
\* false or absent it yields a "Missing required headers" failure.
C12_CaseVariantsByFlag ==
    (HeadersReturned /\ DiffersOnlyInCase(call.headers, call.config.expectedHeaders)) =>
        IF IsCaseInsensitive(call.config) THEN ret = null
        ELSE IsMissingFailure(ret)

\* C12 as the code has it: such a row is accepted when caseInsensitive is true.
\* With caseInsensitive false or absent it yields a "Missing required headers"
\* failure whenever the spelling of some expected header occurs nowhere in the
\* observed row; when every expected spelling does occur somewhere in the row
\* (the expected headers hold case variants or repeats of each other) the row
\* is judged by its order alone: a position failure under strict order, no
\* failure otherwise.
C12_CaseVariantsByFlagAndPresence ==
    (HeadersReturned /\ DiffersOnlyInCase(call.headers, call.config.expectedHeaders)) =>
        IF IsCaseInsensitive(call.config) THEN ret = null
        ELSE IF MissingExpected(call.headers, call.config.expectedHeaders, FALSE) # <<>>
        THEN IsMissingFailure(ret)
        ELSE IF IsStrictOrder(call.config)
        THEN /\ ret # null
             /\ ret.line = 1
             /\ NamesPosition(ret.reason,
                              FirstDifference(call.headers, call.config.expectedHeaders, FALSE))
        ELSE ret = null

\* with caseInsensitive absent, a row of two or more names of which one is
\* written in the other case is refused for a missing header
C12_Witness ==
    /\ HeadersReturned
    /\ "caseInsensitive" \notin DOMAIN call.config
    /\ Len(call.headers) >= 2
    /\ DiffersOnlyInCase(call.headers, call.config.expectedHeaders)
    /\ Cardinality({i \in 1..Len(call.headers) :
                       call.headers[i] # call.config.expectedHeaders[i]}) = 1
    /\ IsMissingFailure(ret)

----------------------------------------------------------------------------
(* Properties of validateDataRows, validateColumnSchemas and validateEncoding *)

\* a direct call of fn has returned
RowsReturned(fn) == call.fn = fn /\ "failures" \in DOMAIN ret

\* the pattern check of the call is enabled: the argument is true or not given
SqlEnabled == ~("validateSqlInjection" \in DOMAIN call.args /\ ~call.args.validateSqlInjection)

\* the 0-based index of the row that is data[r] here
RowIndex(r) == r - 1

\* the data rows of the call's table, by their position in data
DataRowPositions == 2..Len(call.data)

TextColumnCapital == <<67, 111, 108, 117, 109, 110, 32>>  \* 'Column '
TextDangerousPattern == <<67, 111, 110, 116, 97, 105, 110, 115, 32, 112, 111, 116, 101, 110, 116, 105, 97, 108, 108, 121, 32, 100, 97, 110, 103, 101, 114, 111, 117, 115, 32, 83, 81, 76, 32, 112, 97, 116, 116, 101, 114, 110, 32, 40>>  \* 'Contains potentially dangerous SQL pattern ('
TextStatementTerminator == <<83, 116, 97, 116, 101, 109, 101, 110, 116, 32, 116, 101, 114, 109, 105, 110, 97, 116, 111, 114>>  \* 'Statement terminator'
TextSqlComment == <<83, 81, 76, 32, 99, 111, 109, 109, 101, 110, 116>>  \* 'SQL comment'

\* the name under which a failure reports column col (1-based) of the table
ColumnOf(headers, col) ==
    IF col <= Len(headers) /\ headers[col] # <<>> THEN headers[col]
    ELSE TextColumnCapital \o <<48 + col>>

\* the returned failures of the cell at row position r and column col
CellFailures(r, col) ==
    LET ofCell(f) == f.line = RowIndex(r) + 1 /\ f.column = ColumnOf(call.headers, col)
    IN  SelectSeq(ret.failures, ofCell)

\* the failure names the catalog description d
Describes(f, d) == StartsWith(f.reason, TextDangerousPattern \o d \o <<41, 58, 32, 34>>)  \* '): "'

\* the catalog entries that match a text
MatchingEntries(text) ==
    {k \in 1..Len(SQL_DANGEROUS_PATTERNS) : test(SQL_DANGEROUS_PATTERNS[k], text)}

\* C13: validateDataRows emits at most one failure per cell; for every non-empty
\* cell that matches a catalog entry the failure's description is that of the
\* earliest matching entry in catalog order; a cell containing ';' is reported
\* as "Statement terminator", a cell containing '--' but no ';' as "SQL
\* comment"; the line is the row index + 1, and every failure is that of such a
\* cell.
C13_EarliestEntryPerCell ==
    (RowsReturned("validateDataRows") /\ SqlEnabled) =>
        /\ \A r \in DataRowPositions : \A col \in 1..Len(call.data[r]) :
              LET text    == Trimmed(call.data[r][col])
                  matches == MatchingEntries(text)
                  fs      == CellFailures(r, col)
                  first   == CHOOSE k \in matches : \A j \in matches : k <= j
              IN  /\ Len(fs) <= 1
                  /\ (text # <<>> /\ matches # {}) =>
                        /\ Len(fs) = 1
                        /\ Describes(fs[1], SQL_DANGEROUS_PATTERNS[first].description)
                  /\ HasSubstring(text, <<59>>) =>
                        Len(fs) = 1 /\ Describes(fs[1], TextStatementTerminator)
                  /\ (HasSubstring(text, <<45, 45>>) /\ ~HasSubstring(text, <<59>>)) =>
                        Len(fs) = 1 /\ Describes(fs[1], TextSqlComment)
        /\ \A i \in 1..Len(ret.failures) :
              \E r \in DataRowPositions : \E col \in 1..Len(call.data[r]) :
                 /\ ret.failures[i].line = RowIndex(r) + 1
                 /\ ret.failures[i].column = ColumnOf(call.headers, col)
                 /\ MatchingEntries(Trimmed(call.data[r][col])) # {}

\* the second data row holds a cell with ';' and '--', reported as "Statement
\* terminator" on line 3, and a cell with '/*' and '--', reported as "SQL comment"
C13_Witness ==
    /\ RowsReturned("validateDataRows")
    /\ Len(call.data) = 3
    /\ Len(call.data[3]) = 3
    /\ Cardinality(MatchingEntries(Trimmed(call.data[3][1]))) >= 2
    /\ HasSubstring(call.data[3][1], <<59>>)
    /\ \E i, j \in 1..Len(ret.failures) :
          /\ i < j
          /\ ret.failures[i].line = 3
          /\ Describes(ret.failures[i], TextStatementTerminator)
          /\ ret.failures[j].line = 3
          /\ Describes(ret.failures[j], TextSqlComment)
          /\ ~HasSubstring(call.data[3][3], <<59>>)

\* a pattern or an encoding call has returned
PatternOrEncodingReturned ==
    RowsReturned("validateDataRows") \/ RowsReturned("validateEncoding")

\* the allowed encodings of an encoding call restrict something: not given (the
\* default applies) or not empty
EncodingRestricted ==
    "allowedEncodings" \in DOMAIN call.args => call.args.allowedEncodings # <<>>

\* a row with no cell, or with empty cells only
IsBlankRow(row) == \A col \in 1..Len(row) : row[col] = <<>>

\* a cell the call has to report whatever else the table holds: under an enabled
\* pattern check one with ';', under restricting encodings one with a character
\* beyond 0xFF
MustBeReported(cell) ==
    IF call.fn = "validateDataRows"
    THEN SqlEnabled /\ HasSubstring(cell, <<59>>)
    ELSE EncodingRestricted /\ \E k \in 1..Len(cell) : cell[k] > 255

\* C14: a data row with no cell, or whose cells are all empty, yields no pattern
\* failure and no encoding failure under any policy; an empty cell in a row that
\* is not empty yields none either; and the rows after such a row are still
\* checked.
C14_BlankRowsAndCellsSkipped ==
    PatternOrEncodingReturned =>
        \A r \in DataRowPositions :
            /\ IsBlankRow(call.data[r]) =>
                  /\ \A i \in 1..Len(ret.failures) : ret.failures[i].line # RowIndex(r) + 1
                  /\ \A later \in DataRowPositions : \A col \in 1..Len(call.data[later]) :
                        (later > r /\ MustBeReported(call.data[later][col])) =>
                            Len(CellFailures(later, col)) = 1
            /\ \A col \in 1..Len(call.data[r]) :
                  call.data[r][col] = <<>> => CellFailures(r, col) = <<>>

\* after a row of empty cells, a row with an empty cell and a cell that has to be
\* reported: the one failure returned is on line 3, column 2
C14_Witness ==
    /\ PatternOrEncodingReturned
    /\ Len(call.data) = 3
    /\ Len(call.data[2]) = 2
    /\ IsBlankRow(call.data[2])
    /\ Len(call.data[3]) = 2
    /\ call.data[3][1] = <<>>
    /\ MustBeReported(call.data[3][2])
    /\ Len(ret.failures) = 1
    /\ ret.failures[1].line = 3
    /\ ret.failures[1].column = ColumnOf(call.headers, 2)

\* the cell holds a SQL string delimiter (' or ") or the escape character (\)
HasDelimiterOrEscape(cell) == \E k \in 1..Len(cell) : cell[k] \in {39, 34, 92}

\* C15: with the SQL injection check enabled, every data cell that contains a
\* single quote, a double quote or a backslash yields a pattern failure for
\* that cell.
C15_DelimitersDetected ==
    (RowsReturned("validateDataRows") /\ SqlEnabled) =>
        \A r \in DataRowPositions : \A col \in 1..Len(call.data[r]) :
            HasDelimiterOrEscape(call.data[r][col]) => Len(CellFailures(r, col)) = 1

\* the entries of the call's columnSchemas that constrain observed column col:
\* their key and the column's header have the same normalized form, and it is
\* the normalized form of an expected header
ConstrainingEntries(col) ==
    LET ci == IsCaseInsensitive(call.config)
        cs == IF "columnSchemas" \in DOMAIN call.config THEN call.config.columnSchemas ELSE <<>>
        nf == NormalForm(call.headers[col], ci)
    IN  {i \in 1..Len(cs) :
            /\ NormalForm(cs[i].key, ci) = nf
            /\ \E e \in 1..Len(call.config.expectedHeaders) :
                  NormalForm(call.config.expectedHeaders[e], ci) = nf}

\* observed column col is constrained, by one entry
IsConstrained(col) == col <= Len(call.headers) /\ Cardinality(ConstrainingEntries(col)) = 1

\* the type and the nullability its constraints give column col
ConstraintsOf(col) ==
    call.config.columnSchemas[CHOOSE i \in ConstrainingEntries(col) : TRUE].constraints
TypeOfColumn(col) ==
    IF "type" \in DOMAIN ConstraintsOf(col) THEN ConstraintsOf(col).type ELSE "string"
AllowsNull(col) ==
    "allowNull" \in DOMAIN ConstraintsOf(col) => ConstraintsOf(col).allowNull

\* a trimmed text without one layer of surrounding matching quotes
Unquoted(text) ==
    IF Len(text) >= 2 /\ text[1] = text[Len(text)] /\ text[1] \in {34, 39}
    THEN SubSeq(text, 2, Len(text) - 1)
    ELSE text

\* the number grammar: an optional leading minus, then digits with at most one
\* decimal point among them and at least one digit
InNumberGrammar(text) ==
    LET body   == IF text # <<>> /\ text[1] = 45 THEN SubSeq(text, 2, Len(text)) ELSE text
        points == {k \in 1..Len(body) : body[k] = 46}
        digits == {k \in 1..Len(body) : body[k] \in 48..57}
    IN  /\ points \cup digits = 1..Len(body)
        /\ Cardinality(points) <= 1
        /\ digits # {}

TextExpectsNumber == <<101, 120, 112, 101, 99, 116, 115, 32, 97, 32, 110, 117, 109, 98, 101, 114>>  \* 'expects a number'

\* the cell has the one failure whose reason holds text / has no failure
FailsWith(r, col, text) ==
    /\ Len(CellFailures(r, col)) = 1
    /\ HasSubstring(CellFailures(r, col)[1].reason, text)
Passes(r, col) == CellFailures(r, col) = <<>>

\* the values the claim names as passing and as failing
NumbersNamedPassing ==
    {<<52, 50>>, <<45, 51, 46, 49, 52>>, <<46, 53>>, <<45, 48, 46>>, <<34, 52, 50, 34>>}  \* '42', '-3.14', '.5', '-0.', '"42"'
NumbersNamedFailing ==
    {<<110, 111, 116, 45, 97, 45, 110, 117, 109, 98, 101, 114>>, <<49, 46, 50, 46, 51>>, <<46>>, <<45>>, <<43, 53>>}  \* 'not-a-number', '1.2.3', '.', '-', '+5'

\* C16: in a column constrained to type number a non-empty cell passes if and
\* only if its trimmed text, without one layer of surrounding matching quotes,
\* is in the number grammar; otherwise it yields one "expects a number" failure.
\* "42", "-3.14", ".5", "-0." and '"42"' pass; "not-a-number", "1.2.3", ".", "-"
\* and "+5" fail.
C16_NumberGrammar ==
    RowsReturned("validateColumnSchemas") =>
        \A r \in DataRowPositions : \A col \in 1..Len(call.data[r]) :
            LET cell == call.data[r][col]
            IN  (IsConstrained(col) /\ TypeOfColumn(col) = "number" /\ Trimmed(cell) # <<>>) =>
                   /\ IF InNumberGrammar(Unquoted(Trimmed(cell)))
                      THEN Passes(r, col)
                      ELSE FailsWith(r, col, TextExpectsNumber)
                   /\ cell \in NumbersNamedPassing => Passes(r, col)
                   /\ cell \in NumbersNamedFailing => FailsWith(r, col, TextExpectsNumber)

\* a number column that refuses null is given the cell '.5' and nothing is returned
C16_Witness ==
    /\ RowsReturned("validateColumnSchemas")
    /\ Len(call.data) = 2
    /\ call.data[2] = <<<<46, 53>>>>
    /\ IsConstrained(1)
    /\ TypeOfColumn(1) = "number"
    /\ ~AllowsNull(1)
    /\ ret.failures = <<>>

TextExpectsBoolean == <<101, 120, 112, 101, 99, 116, 115, 32, 97, 32, 98, 111, 111, 108, 101, 97, 110>>  \* 'expects a boolean'
TextNoNull == <<100, 111, 101, 115, 32, 110, 111, 116, 32, 97, 108, 108, 111, 119, 32, 110, 117, 108, 108, 32, 111, 114, 32, 101, 109, 112, 116, 121, 32, 118, 97, 108, 117, 101, 115>>  \* 'does not allow null or empty values'

\* a text with the case of its letters folded away
Folded(text) == [k \in 1..Len(text) |-> FoldCase(text[k])]

\* t, f, true, false
BooleanWords == {<<116>>, <<102>>, <<116, 114, 117, 101>>, <<102, 97, 108, 115, 101>>}

\* values the claim names as failing: "yes", "1", "0"
BooleansNamedFailing == {<<121, 101, 115>>, <<49>>, <<48>>}

\* C17: in a column constrained to type boolean a non-empty cell passes if and
\* only if its trimmed text without surrounding quotes is, whatever its case,
\* one of t, f, true, false; every other non-empty value ("yes", "1", "0" among
\* them) yields exactly one "expects a boolean" failure.
C17_BooleanWords ==
    RowsReturned("validateColumnSchemas") =>
        \A r \in DataRowPositions : \A col \in 1..Len(call.data[r]) :
            LET cell == call.data[r][col]
            IN  (IsConstrained(col) /\ TypeOfColumn(col) = "boolean" /\ Trimmed(cell) # <<>>) =>
                   /\ IF Folded(Unquoted(Trimmed(cell))) \in BooleanWords
                      THEN Passes(r, col)
                      ELSE FailsWith(r, col, TextExpectsBoolean)
                   /\ cell \in BooleansNamedFailing => FailsWith(r, col, TextExpectsBoolean)

\* a boolean column is given the quoted, upper-case or padded spelling of a
\* boolean word and nothing is returned
C17_Witness ==
    /\ RowsReturned("validateColumnSchemas")
    /\ Len(call.data) = 2
    /\ Len(call.data[2]) = 1
    /\ call.data[2][1] \notin BooleanWords
    /\ Folded(Unquoted(Trimmed(call.data[2][1]))) = <<102>>  \* 'f'
    /\ Trimmed(call.data[2][1]) # call.data[2][1]
    /\ IsConstrained(1)
    /\ TypeOfColumn(1) = "boolean"
    /\ ret.failures = <<>>

\* C18: for a constrained column and a cell that is empty or whitespace only:
\* with allowNull=false there is exactly one "does not allow null or empty
\* values" failure whatever the column's type; with allowNull true or absent
\* there is no failure and no type check, for number and boolean too.
C18_EmptyCellByAllowNull ==
    RowsReturned("validateColumnSchemas") =>
        \A r \in DataRowPositions : \A col \in 1..Len(call.data[r]) :
            (IsConstrained(col) /\ Trimmed(call.data[r][col]) = <<>>) =>
                IF AllowsNull(col) THEN Passes(r, col)
                ELSE FailsWith(r, col, TextNoNull)

\* a whitespace-only cell in a number column whose allowNull is not given: no failure
C18_Witness ==
    /\ RowsReturned("validateColumnSchemas")
    /\ Len(call.data) = 2
    /\ Len(call.data[2]) = 1
    /\ call.data[2][1] # <<>>
    /\ Trimmed(call.data[2][1]) = <<>>
    /\ IsConstrained(1)
    /\ TypeOfColumn(1) = "number"
    /\ "allowNull" \notin DOMAIN ConstraintsOf(1)
    /\ ret.failures = <<>>

\* the cell of data row r in column col is absent: the row is shorter
IsAbsent(r, col) == col > Len(call.data[r])

\* C19: in the schema validator a cell that is absent because its row is shorter
\* than the header row is treated as an empty cell: in a constrained column with
\* allowNull=false it yields one "does not allow null or empty values" failure
\* for that row, and with allowNull=true none.
C19_AbsentCellIsEmpty ==
    RowsReturned("validateColumnSchemas") =>
        \A r \in DataRowPositions : \A col \in 1..Len(call.headers) :
            (IsAbsent(r, col) /\ IsConstrained(col)) =>
                IF AllowsNull(col) THEN Passes(r, col)
                ELSE FailsWith(r, col, TextNoNull)

\* the text of the cell of data row r in column col, an absent cell being empty
CellText(r, col) == IF IsAbsent(r, col) THEN <<>> ELSE call.data[r][col]

\* the cell of data row r in the constrained column col violates its constraints
Violates(r, col) ==
    LET text == Trimmed(CellText(r, col))
    IN  IF text = <<>> THEN ~AllowsNull(col)
        ELSE CASE TypeOfColumn(col) = "number"  -> ~InNumberGrammar(Unquoted(text))
               [] TypeOfColumn(col) = "boolean" -> Folded(Unquoted(text)) \notin BooleanWords
               [] OTHER                         -> FALSE

\* the (data row, column) pairs whose column is constrained and whose cell
\* violates the constraint
ViolatingPairs ==
    {p \in DataRowPositions \X (1..Len(call.headers)) :
        IsConstrained(p[2]) /\ Violates(p[1], p[2])}

\* C20: validateColumnSchemas never short-circuits: its result holds exactly one
\* failure for each (data row, column) pair whose column is constrained and
\* whose cell violates the constraint, and nothing else; schema keys that match
\* no expected header constrain nothing, and columns without a constraint yield
\* no failure whatever they hold.
C20_OneFailurePerViolation ==
    RowsReturned("validateColumnSchemas") =>
        /\ \A p \in ViolatingPairs : Len(CellFailures(p[1], p[2])) = 1
        /\ Len(ret.failures) = Cardinality(ViolatingPairs)

\* the allowed encodings of an encoding call: the argument, or ['UTF8'] when it
\* is not given
AllowedOfCall ==
    IF "allowedEncodings" \in DOMAIN call.args THEN call.args.allowedEncodings
    ELSE <<"UTF8">>

\* the highest code of the range of a named encoding
HighestCode(encoding) == IF encoding \in {"LATIN1", "WINDOWS1252"} THEN 255 ELSE 127

\* a character code lies in the range of at least one of the encodings
InSomeRange(code, encodings) ==
    \E k \in 1..Len(encodings) : code >= 0 /\ code <= HighestCode(encodings[k])

\* the positions of the invalid characters of a cell
InvalidPositions(cell, encodings) ==
    {k \in 1..Len(cell) : ~InSomeRange(cell[k], encodings)}

\* the least element of a non-empty set of numbers
Least(S) == CHOOSE k \in S : \A other \in S : k <= other

\* one hexadecimal digit, upper case
HexDigitText(d) == IF d < 10 THEN 48 + d ELSE 55 + d

\* the four hexadecimal digits of a code below 0x10000
FourHexDigits(code) ==
    <<HexDigitText(code \div 4096), HexDigitText((code \div 256) % 16),
      HexDigitText((code \div 16) % 16), HexDigitText(code % 16)>>

TextContainsCharacter == <<67, 111, 110, 116, 97, 105, 110, 115, 32, 99, 104, 97, 114, 97, 99, 116, 101, 114, 32, 34>>  \* 'Contains character "'

\* the failure reports the character of the given code
ReportsCharacter(f, code) ==
    StartsWith(f.reason, TextContainsCharacter \o <<code>> \o <<34, 32, 40, 48, 120>>  \* '" (0x'
                         \o FourHexDigits(code) \o <<41>>)  \* ')'

\* every character of the cell is 0xE9 or an ASCII character, and 0xE9 occurs
HoldsEAcute(cell) ==
    /\ \E k \in 1..Len(cell) : cell[k] = 233
    /\ \A k \in 1..Len(cell) : cell[k] = 233 \/ cell[k] <= 127

\* the cells of the call's data rows, as (row position, column)
DataCells == UNION {{<<r, col>> : col \in 1..Len(call.data[r])} : r \in DataRowPositions}

\* C21: with a non-empty allowedEncodings a character is valid exactly when its
\* code lies in the range of at least one allowed encoding (ASCII, UTF8, UTF16:
\* 0..0x7F; LATIN1, WINDOWS1252: 0..0xFF); validateEncoding emits exactly one
\* failure for each non-empty cell that holds an invalid character, reporting the
\* first invalid character of the cell, and none for the other cells; a cell with
\* 0xE9 is flagged under ['UTF8'] and passes under ['LATIN1'] and ['UTF8','LATIN1'].
C21_UnionOfRanges ==
    (RowsReturned("validateEncoding") /\ AllowedOfCall # <<>>) =>
        /\ \A p \in DataCells :
              LET cell == call.data[p[1]][p[2]]
                  invalid == InvalidPositions(cell, AllowedOfCall)
              IN  /\ invalid = {} => CellFailures(p[1], p[2]) = <<>>
                  /\ invalid # {} =>
                        /\ Len(CellFailures(p[1], p[2])) = 1
                        /\ ReportsCharacter(CellFailures(p[1], p[2])[1], cell[Least(invalid)])
                  /\ HoldsEAcute(cell) =>
                        /\ AllowedOfCall = <<"UTF8">> => Len(CellFailures(p[1], p[2])) = 1
                        /\ AllowedOfCall \in {<<"LATIN1">>, <<"UTF8", "LATIN1">>} =>
                              CellFailures(p[1], p[2]) = <<>>
        /\ Len(ret.failures) =
              Cardinality({p \in DataCells :
                              InvalidPositions(call.data[p[1]][p[2]], AllowedOfCall) # {}})

\* under ['UTF8', 'LATIN1'] the cell ' é€ ' is reported for its third character
\* only, and the 'é' of another row is not reported
C21_Witness ==
    /\ RowsReturned("validateEncoding")
    /\ AllowedOfCall = <<"UTF8", "LATIN1">>
    /\ Len(call.data) = 3
    /\ call.data[2] = <<<<97>>, <<233>>>>
    /\ Len(call.data[3]) = 3
    /\ call.data[3][1] = <<32, 233, 8364, 32>>
    /\ Len(ret.failures) = 2
    /\ ReportsCharacter(ret.failures[1], 8364)
    /\ ret.failures[1].line = 3

\* a cell that is not the empty string and is empty after trimming
IsWhitespaceOnly(cell) == cell # <<>> /\ Trimmed(cell) = <<>>

\* C23 as claimed: the Encoding Validator skips every cell whose text is empty
\* after trimming (a whitespace-only cell, whatever the codes of its whitespace
\* characters), under any allowedEncodings, as the Content Pattern Validator does.
C23_WhitespaceCellsSkipped ==
    PatternOrEncodingReturned =>
        \A p \in DataCells :
            Trimmed(call.data[p[1]][p[2]]) = <<>> => CellFailures(p[1], p[2]) = <<>>

\* C23: the Content Pattern Validator reports no whitespace-only cell; the
\* Encoding Validator skips only the empty string and does not trim: under a
\* non-empty allowedEncodings a whitespace-only cell has one failure, for its
\* first character outside every allowed range, when it holds such a character
\* (U+00A0 under ['UTF8']), and none otherwise; under an empty allowedEncodings
\* it has none.
C23_OnlyEmptyStringSkipped ==
    PatternOrEncodingReturned =>
        \A p \in DataCells :
            LET cell == call.data[p[1]][p[2]]
                invalid == InvalidPositions(cell, AllowedOfCall)
            IN  /\ cell = <<>> => CellFailures(p[1], p[2]) = <<>>
                /\ IsWhitespaceOnly(cell) =>
                      IF call.fn = "validateEncoding" /\ AllowedOfCall # <<>> /\ invalid # {}
                      THEN /\ Len(CellFailures(p[1], p[2])) = 1
                           /\ ReportsCharacter(CellFailures(p[1], p[2])[1],
                                               cell[Least(invalid)])
                      ELSE CellFailures(p[1], p[2]) = <<>>

\* under ['UTF8'] the cell that is one U+00A0 is reported, next to a cell that is
\* reported as well
C23_Witness ==
    /\ RowsReturned("validateEncoding")
    /\ AllowedOfCall = <<"UTF8">>
    /\ Len(call.data) = 2
    /\ Len(call.data[2]) = 2
    /\ call.data[2][2] = <<160>>
    /\ IsWhitespaceOnly(call.data[2][2])
    /\ Len(ret.failures) = 2
    /\ ret.failures[2].column = ColumnOf(call.headers, 2)
    /\ ReportsCharacter(ret.failures[2], 160)

\* the failure f is one a content check makes for some cell of row, under the
\* header row headers: a pattern failure quotes the trimmed cell, a schema
\* failure names the cell's header and quotes the cell or reports it empty, an
\* encoding failure reports a character of the cell
OriginatesIn(f, headers, row) ==
    \E col \in 1..Len(row) :
        LET cell == row[col] IN
        \/ /\ IsPatternFailure(f)
           /\ f.column = ReportedColumn(headers, col)
           /\ Trimmed(cell) # <<>>
           /\ EndsWith(f.reason, <<41, 58, 32, 34>> \o Trimmed(cell) \o <<34>>)  \* '): "' ... '"'
        \/ /\ IsSchemaFailure(f)
           /\ col <= Len(headers)
           /\ f.column = headers[col]
           /\ \/ EndsWith(f.reason, <<103, 111, 116, 58, 32, 34>> \o cell \o <<34>>)  \* 'got: "' ... '"'
              \/ EndsWith(f.reason, TextNoNull) /\ Trimmed(cell) = <<>>
        \/ /\ IsEncodingFailure(f)
           /\ f.column = ReportedColumn(headers, col)
           /\ \E k \in 1..Len(cell) : cell[k] > 127 /\ ReportsCharacter(f, cell[k])

\* how many failures the enabled checks make for a table of the header row and
\* one data row
FindingsOfRow(c, headers, row) ==
    LET table == <<headers, row>> IN
    (IF SqlCheckDisabled(config[c]) THEN 0
     ELSE Len(validateDataRows(table, headers, TRUE)))
    + (IF SchemasHaveKey(config[c])
       THEN Len(validateColumnSchemas(table, headers, config[c].headers)) ELSE 0)
    + (IF EncodingPolicyGiven(config[c])
       THEN Len(validateEncoding(table, headers, config[c].encoding.allowedEncodings))
       ELSE 0)

\* the failures of a call's outcome on a line
FailuresOnLine(c, line) ==
    LET onLine(f) == f.line = line IN SelectSeq(FailuresOf(c), onLine)

\* C24: in every outcome each failure's line identifies its origin: file-level
\* failures (empty table, parser error) have line 0, the header failure has line
\* 1, and every pattern, schema or encoding failure for a cell of the row at
\* 0-based index r (r >= 1) has line r + 1, between 2 and the number of rows of
\* the table; skipped empty rows still count toward the index of later rows.
C24_LineIdentifiesOrigin ==
    \A c \in DOMAIN pc :
        /\ (GotThrown(c) \/ (GotTable(c) /\ parsed[c].data = <<>>)) =>
              /\ Len(FailuresOf(c)) = 1
              /\ FailuresOf(c)[1].line = 0
              /\ FailuresOf(c)[1].column = TextFile
        /\ HeaderFails(c) =>
              /\ Len(FailuresOf(c)) = 1
              /\ FailuresOf(c)[1].line = 1
        /\ HeaderPasses(c) =>
              LET data == parsed[c].data IN
              /\ \A k \in 1..Len(FailuresOf(c)) :
                    LET f == FailuresOf(c)[k]
                    IN  /\ f.line \in 2..Len(data)
                        /\ OriginatesIn(f, data[1], data[RowIndex(f.line) + 1])
              /\ \A r \in 1..(Len(data) - 1) :
                    Len(FailuresOnLine(c, r + 1)) = FindingsOfRow(c, data[1], data[r + 1])

\* after a row that is skipped as empty, row 2 (0-based) has pattern, schema and
\* encoding failures, all on line 3, and line 2 has none
C24_Witness ==
    \E c \in DOMAIN pc :
        /\ HeaderPasses(c)
        /\ Len(parsed[c].data) = 3
        /\ IsBlankRow(parsed[c].data[2])
        /\ FailuresOnLine(c, 2) = <<>>
        /\ PatternBlock(c) # <<>> /\ SchemaBlock(c) # <<>> /\ EncodingBlock(c) # <<>>
        /\ \A k \in 1..Len(FailuresOf(c)) : FailuresOf(c)[k].line = 3

\* a direct call of stripSurroundingQuotes has returned
StripReturned == call.fn = "stripSurroundingQuotes" /\ "value" \in DOMAIN ret

\* a text of at least two characters that starts and ends with the same quote
\* character
HasMatchingQuotes(text) ==
    /\ Len(text) >= 2
    /\ \/ text[1] = 34 /\ text[Len(text)] = 34  \* "
       \/ text[1] = 39 /\ text[Len(text)] = 39  \* '

TextDoublyQuoted42 == <<34, 34, 52, 50, 34, 34>>  \* '""42""'
TextQuoted42 == <<34, 52, 50, 34>>  \* '"42"'
TextUnmatched42 == <<34, 52, 50, 39>>  \* '"42\''

\* C25: before a number or boolean type check exactly one layer of surrounding
\* quotes is stripped, and only when the trimmed cell has length at least 2 and
\* starts and ends with the same quote character: the doubly quoted '""42""'
\* keeps its inner quotes and fails the number check; a value with unmatched
\* quotes such as '"42' + "'" and a single-character cell are left unchanged.
C25_OneLayerOfMatchingQuotes ==
    /\ StripReturned =>
          LET text == Trimmed(call.value)
          IN  /\ IF HasMatchingQuotes(text)
                 THEN text = <<text[1]>> \o ret.value \o <<text[1]>>
                 ELSE ret.value = text
              /\ call.value = TextDoublyQuoted42 => ret.value = TextQuoted42
              /\ call.value = TextUnmatched42 => ret.value = TextUnmatched42
              /\ Len(text) = 1 => ret.value = text
    /\ RowsReturned("validateColumnSchemas") =>
          \A r \in DataRowPositions : \A col \in 1..Len(call.data[r]) :
              (IsConstrained(col) /\ TypeOfColumn(col) = "number"
               /\ call.data[r][col] \in {TextDoublyQuoted42, TextUnmatched42, <<34>>, <<39>>})
                  => FailsWith(r, col, TextExpectsNumber)

\* '""42""' was given and '"42"' returned
C25_Witness ==
    /\ StripReturned
    /\ call.value = TextDoublyQuoted42
    /\ ret.value = TextQuoted42

\* the descriptions of the four catalog entries that start with a quote followed
\* by ';'
ShadowedDescriptions ==
    {<<81, 117, 111, 116, 101, 32, 102, 111, 108, 108, 111, 119, 101, 100, 32, 98, 121, 32, 115, 116, 97, 116, 101, 109, 101, 110, 116, 32, 116, 101, 114, 109, 105, 110, 97, 116, 111, 114, 32, 40, 112, 111, 116, 101, 110, 116, 105, 97, 108, 32, 105, 110, 106, 101, 99, 116, 105, 111, 110, 41>>,  \* 'Quote followed by statement terminator (potential injection)'
     <<83, 81, 76, 32, 105, 110, 106, 101, 99, 116, 105, 111, 110, 32, 112, 97, 116, 116, 101, 114, 110>>,  \* 'SQL injection pattern'
     <<83, 81, 76, 32, 105, 110, 106, 101, 99, 116, 105, 111, 110, 32, 119, 105, 116, 104, 32, 101, 120, 101, 99>>,  \* 'SQL injection with exec'
     <<83, 81, 76, 32, 105, 110, 106, 101, 99, 116, 105, 111, 110, 32, 119, 105, 116, 104, 32, 117, 110, 105, 111, 110>>}  \* 'SQL injection with union'

\* the catalog entries with these descriptions
ShadowedEntries ==
    {k \in 1..Len(SQL_DANGEROUS_PATTERNS) :
        SQL_DANGEROUS_PATTERNS[k].description \in ShadowedDescriptions}

\* C26: the four catalog entries that start with a quote followed by ';' are
\* never the description of a failure of validateDataRows, for any table: every
\* cell they match holds ';', matches the first entry and is reported as
\* "Statement terminator".
C26_QuoteEntriesShadowed ==
    RowsReturned("validateDataRows") =>
        /\ Cardinality(ShadowedEntries) = 4
        /\ SQL_DANGEROUS_PATTERNS[1].pattern = <<Chr(59)>>  \* ;
        /\ \A k \in ShadowedEntries :
              /\ k > 1
              /\ SubSeq(SQL_DANGEROUS_PATTERNS[k].pattern, 1, 2) = <<Chr(39), Chr(59)>>  \* ';
        /\ \A i \in 1..Len(ret.failures) : \A d \in ShadowedDescriptions :
              ~Describes(ret.failures[i], d)
        /\ \A p \in DataCells :
              LET text == Trimmed(call.data[p[1]][p[2]])
              IN  (MatchingEntries(text) \cap ShadowedEntries # {}) =>
                     /\ HasSubstring(text, <<39, 59>>)  \* "';"
                     /\ 1 \in MatchingEntries(text)
                     /\ SqlEnabled =>
                           /\ Len(CellFailures(p[1], p[2])) = 1
                           /\ Describes(CellFailures(p[1], p[2])[1], TextStatementTerminator)

\* cells that match the exec and the union entries are both reported as
\* statement terminators
C26_Witness ==
    /\ RowsReturned("validateDataRows")
    /\ Len(call.data) = 3
    /\ call.data[2] = <<<<39, 59, 32, 69, 88, 69, 67, 32, 120>>>>  \* "'; EXEC x"
    /\ call.data[3] = <<<<39, 59, 117, 110, 105, 111, 110>>>>  \* "';union"
    /\ Cardinality(MatchingEntries(call.data[2][1]) \cap ShadowedEntries) = 2
    /\ Cardinality(MatchingEntries(call.data[3][1]) \cap ShadowedEntries) = 2
    /\ Len(ret.failures) = 2
    /\ \A i \in 1..2 : Describes(ret.failures[i], TextStatementTerminator)

\* a header cell that a scan of the header row would report: it holds ';' or a
\* character above 0x7F
WouldBeReported(name) ==
    HasSubstring(name, <<59>>) \/ \E k \in 1..Len(name) : name[k] > 127

\* the table has no cell outside its header row
NoDataCell(data) == \A r \in 2..Len(data) : Len(data[r]) = 0

\* C27: the header row (row 0) is never scanned by the pattern, schema or
\* encoding validators: no failure after a passing header is on line 1, and if
\* the header row passes validateHeaders and no data row violates a check,
\* validateFile returns success, even when a header cell holds a catalog pattern
\* such as ';' or a character outside every allowed encoding range.
C27_HeaderRowNotScanned ==
    \A c \in DOMAIN pc :
        HeaderPasses(c) =>
            LET data == parsed[c].data IN
            /\ \A k \in 1..Len(FailuresOf(c)) : FailuresOf(c)[k].line # 1
            /\ NoDataCell(data) => outcome[c].success
            /\ (\A r \in 2..Len(data) : FindingsOfRow(c, data[1], data[r]) = 0)
                  => outcome[c].success

\* the header row 'N;', 'é' passes under a policy that enables the pattern
\* check, constrains column 'é' to numbers and allows ['UTF8'] only; the data row
\* 'a', '7' is checked and the outcome is success
C27_Witness ==
    \E c \in DOMAIN pc :
        /\ HeaderPasses(c)
        /\ \A col \in 1..Len(parsed[c].data[1]) : WouldBeReported(parsed[c].data[1][col])
        /\ ~SqlCheckDisabled(config[c])
        /\ SchemasHaveKey(config[c])
        /\ EncodingPolicyGiven(config[c])
        /\ Len(parsed[c].data) = 2
        /\ parsed[c].data[2] = <<<<97>>, <<55>>>>
        /\ outcome[c].success

\* the policy names no allowed encodings: it has no encoding field, or one
\* without allowedEncodings
NoAllowedEncodingsGiven(cfg) ==
    ~("encoding" \in DOMAIN cfg /\ "allowedEncodings" \in DOMAIN cfg.encoding)

\* some cell of a data row holds a character above 0x7F
HasNonAsciiCell(data) ==
    \E r \in 2..Len(data) : \E col \in 1..Len(data[r]) :
        \E k \in 1..Len(data[r][col]) : data[r][col][k] > 127

FailuresOfRow(r) ==
    LET ofRow(f) == f.line = RowIndex(r) + 1 IN SelectSeq(ret.failures, ofRow)

\* the columns present in the row at position r that are constrained and refuse
\* null
RefusingColumns(r) ==
    {col \in 1..Len(call.data[r]) : IsConstrained(col) /\ ~AllowsNull(col)}

\* C29: unlike the pattern and encoding validators, the Column Schema Validator
\* does not skip a data row whose cells are all empty: such a row with at least
\* one cell yields one null failure for each column position present in the row
\* that is constrained with allowNull=false (and nothing else), whereas a data
\* row with zero cells yields no schema failure at all.
C29_EmptyCellRowsChecked ==
    RowsReturned("validateColumnSchemas") =>
        \A r \in DataRowPositions :
            LET row == call.data[r] IN
            /\ Len(row) = 0 => FailuresOfRow(r) = <<>>
            /\ (Len(row) >= 1 /\ IsBlankRow(row)) =>
                  /\ \A col \in RefusingColumns(r) : FailsWith(r, col, TextNoNull)
                  /\ Len(FailuresOfRow(r)) = Cardinality(RefusingColumns(r))

\* a row with no cell and then a row of two empty cells, both columns refusing
\* null: two failures, both on line 3
C29_Witness ==
    /\ RowsReturned("validateColumnSchemas")
    /\ Len(call.data) = 3
    /\ call.data[2] = <<>>
    /\ call.data[3] = <<<<>>, <<>>>>
    /\ Cardinality(RefusingColumns(3)) = 2
    /\ Len(ret.failures) = 2
    /\ \A i \in 1..2 : ret.failures[i].line = 3 /\ HasSubstring(ret.failures[i].reason, TextNoNull)

\* the cell, trimmed, is only a pair of matching quotes
IsQuotePairOnly(cell) == Trimmed(cell) \in {<<34, 34>>, <<39, 39>>}  \* '""', "''"

\* the cell, trimmed, is a value in matching quotes with whitespace at the start
\* or at the end of what the quotes hold
IsQuotedWithPadding(cell) ==
    LET text == Trimmed(cell) IN
    /\ HasMatchingQuotes(text)
    /\ Len(text) > 2
    /\ IsWhiteSpace(text[2]) \/ IsWhiteSpace(text[Len(text) - 1])

\* C30: emptiness of a cell is decided before quotes are stripped and the
\* stripped value is not trimmed again: for a number or boolean column a cell
\* made only of a matching quote pair ('""' or "''") or a quoted value with inner
\* padding (such as '" 42 "') yields a type failure, never a null failure,
\* whatever the value of allowNull.
C30_QuotedEmptyIsTypeFailure ==
    RowsReturned("validateColumnSchemas") =>
        \A p \in DataCells :
            LET cell == call.data[p[1]][p[2]]
                type == TypeOfColumn(p[2])
            IN  (/\ IsConstrained(p[2])
                 /\ type \in {"number", "boolean"}
                 /\ IsQuotePairOnly(cell) \/ IsQuotedWithPadding(cell)) =>
                    /\ FailsWith(p[1], p[2], IF type = "number" THEN TextExpectsNumber
                                             ELSE TextExpectsBoolean)
                    /\ ~HasSubstring(CellFailures(p[1], p[2])[1].reason, TextNoNull)

\* a number column that allows null is given '""' and reports a number failure
C30_Witness ==
    /\ RowsReturned("validateColumnSchemas")
    /\ Len(call.data) = 2
    /\ call.data[2] = <<<<34, 34>>>>  \* '""'
    /\ IsConstrained(1)
    /\ TypeOfColumn(1) = "number"
    /\ AllowsNull(1)
    /\ Len(ret.failures) = 1
    /\ HasSubstring(ret.failures[1].reason, TextExpectsNumber)

----------------------------------------------------------------------------
(* Properties of concurrent calls of validateFile *)

\* call c has settled
HasSettled(c) == pc[c] \in {"resolved", "rejected"}

\* what a call returns when it runs alone: the parser's result and the policy
\* decide it
OutcomeAlone(result, cfg) ==
    IF "data" \in DOMAIN result THEN validateFileTry(result.data, cfg).value
    ELSE validateFileCatch(result.error).value

\* every settled call has resolved with the outcome of the same call alone, and
\* two calls with the same parser result and the same policy have equal outcomes
SettledAsAlone ==
    /\ \A c \in DOMAIN pc :
          HasSettled(c) =>
              /\ pc[c] = "resolved"
              /\ outcome[c] = OutcomeAlone(parsed[c], config[c])
    /\ \A c, d \in DOMAIN pc :
          (HasSettled(c) /\ HasSettled(d) /\ parsed[c] = parsed[d] /\ config[c] = config[d])
              => outcome[c] = outcome[d]

\* a step leaves every policy as it is, leaves a table the parser has delivered
\* and an outcome that was returned as they are, and touches nothing of a call
\* that does not move
StepOfOneCall ==
    /\ config' = config
    /\ \A c \in DOMAIN pc :
          /\ parsed[c] # pending => parsed'[c] = parsed[c]
          /\ outcome[c] # pending => outcome'[c] = outcome[c]
          /\ pc'[c] = pc[c] =>
                /\ parsed'[c] = parsed[c]
                /\ outcome'[c] = outcome[c]
                /\ invoked'[c] = invoked[c]

====
